---- MODULE Spec2Model ----
(***************************************************************************)
(* A model of the Simple C compiler (scc): the storage allocator           *)
(* (allocator.cpp), the code generator and its register protocol           *)
(* (generator.cpp), and the driver loop of the parser (parser.cpp).        *)
(***************************************************************************)
EXTENDS Integers, Sequences, FiniteSets, TLC

VARIABLES
    func,        \* the Function node being compiled (Function::generate's this)
    symOffset,   \* Symbol::offset of the function's symbols, by symbol id
    offset,      \* generator.cpp: static int offset
    regNode,     \* Register::node, by register
    exprReg,     \* Expression::reg, by node id (absent = nullptr)
    exprOffset,  \* Expression::offset, by node id (absent = 0)
    out,         \* the assembly written to cout
    abort,       \* "none", or the assertion that ended the process
    counter,     \* Label::_counter
    pc,          \* where the process is
    todo,        \* Block::generate: the statements of the body still to generate
    input,       \* the translation unit on standard input, as its top-level items
    lookahead,   \* parser.cpp: the item the parser is at (past the last: DONE)
    numerrors,   \* the error count that report increments
    global,      \* checker.cpp: the symbols of the global scope, in order
    defined,     \* checker.cpp: the names of the functions defined so far
    scopes,      \* checker.cpp: the scopes opened inside the global scope, current last
    call         \* the last call of a function of the checker: its arguments and result

vars == <<func, symOffset, offset, regNode, exprReg, exprOffset, out, abort, counter, pc, todo, input, lookahead, numerrors, global, defined, scopes, call>>

\* The variables of the parser and the checker.
parserVars == <<input, lookahead, numerrors, global, defined, scopes, call>>

\* No call of the checker has been made.
NoCall == [name |-> "none", args |-> <<>>, result |-> <<>>, reported |-> <<>>]

\* The parser before it has read anything, of an empty translation unit.
ParserIdle ==
    /\ input = <<>>
    /\ lookahead = 1
    /\ numerrors = 0
    /\ global = <<>>
    /\ defined = {}
    /\ scopes = <<>>
    /\ call = NoCall

----------------------------------------------------------------------------
(* machine.h *)

SIZEOF_CHAR == 1
SIZEOF_INT == 4
SIZEOF_LONG == 8
SIZEOF_PTR == 8
SIZEOF_REG == 8
NUM_PARAM_REGS == 6
PARAM_ALIGNMENT == 8
STACK_ALIGNMENT == 16
ALIGNOF_CHAR == 1
ALIGNOF_INT == 4
ALIGNOF_LONG == 8
ALIGNOF_PTR == 8

----------------------------------------------------------------------------
(* Helpers of the model: C++ arithmetic and finite maps. *)

\* C++ abs() on int.
Abs(x) == IF x < 0 THEN -x ELSE x

\* C++ a % b for b > 0: the remainder has the sign of a (truncating division).
CRem(a, b) == IF a >= 0 THEN a % b ELSE -((-a) % b)

\* The largest int of the build (x86-64: int is 32 bits wide).
INT_MAX == 2147483647

\* a -= b for an int a and an unsigned long b <= INT_MAX: the difference is
\* taken in unsigned long and converted back to int, which keeps its low 32
\* bits (a - b + 2^32 when a - b is below INT_MIN).
IntSub(a, b) ==
    IF a < 0 /\ (a + INT_MAX) + 1 < b
    THEN ((((a + INT_MAX) + 1) - b) + INT_MAX) + 1
    ELSE a - b

\* a + b for sizes a, b >= 0, held at INT_MAX (a measure of the model, to
\* tell the frames that fit an int from those that do not).
SatAdd(a, b) == IF a > INT_MAX - b THEN INT_MAX ELSE a + b

\* std::min on int.
Min(a, b) == IF a < b THEN a ELSE b

\* A map with key k set to v.
Put(f, k, v) == [x \in (DOMAIN f) \cup {k} |-> IF x = k THEN v ELSE f[x]]

\* A map without key k.
Drop(f, k) == [x \in (DOMAIN f) \ {k} |-> f[x]]

\* The empty map.
EmptyMap == [x \in {} |-> 0]

----------------------------------------------------------------------------
(* Type.h / Type.cpp: a type is a value (kind, specifier, indirection,     *)
(* length or parameters).                                                  *)

ScalarType(spec, ind) == [kind |-> "SCALAR", spec |-> spec, ind |-> ind, len |-> 0, variadic |-> FALSE, params |-> <<>>]

ArrayType(spec, ind, length) == [kind |-> "ARRAY", spec |-> spec, ind |-> ind, len |-> length, variadic |-> FALSE, params |-> <<>>]

FunctionType(spec, ind, variadic, types) == [kind |-> "FUNCTION", spec |-> spec, ind |-> ind, len |-> 0, variadic |-> variadic, params |-> types]

ErrorType == [kind |-> "ERROR", spec |-> "INT", ind |-> 0, len |-> 0, variadic |-> FALSE, params |-> <<>>]

\* Type::isFunction
IsFunction(t) == t.kind = "FUNCTION"

\* Type::operator==
TypeEq(a, b) ==
    IF a.kind # b.kind THEN FALSE
    ELSE IF a.kind = "ERROR" THEN TRUE
    ELSE IF a.spec # b.spec \/ a.ind # b.ind THEN FALSE
    ELSE IF a.kind = "SCALAR" THEN TRUE
    ELSE IF a.kind = "ARRAY" THEN a.len = b.len
    ELSE a.variadic = b.variadic /\ a.params = b.params

\* Type::size (allocator.cpp); defined for non-FUNCTION, non-ERROR types.
TypeSize(t) ==
    LET count == IF t.kind = "ARRAY" THEN t.len ELSE 1
    IN  IF t.ind > 0 THEN count * SIZEOF_PTR
        ELSE IF t.spec = "CHAR" THEN count * SIZEOF_CHAR
        ELSE IF t.spec = "INT" THEN count * SIZEOF_INT
        ELSE IF t.spec = "LONG" THEN count * SIZEOF_LONG
        ELSE 0

----------------------------------------------------------------------------
(* Tree.h: statements and functions.  A statement is a record              *)
(* (kind, exprs, stmts, decls); a Block carries the types of the symbols   *)
(* of its scope in declaration order.  A node is named by its path from    *)
(* the function body: statement j of a statement at path p is p \o <<j>>,  *)
(* expression i of a statement is p \o <<-i>>, operand i of an expression  *)
(* is p \o <<i>>.  A symbol is named by <<path of its block, index>>.      *)

Stmt(kind, exprs, stmts, decls) == [kind |-> kind, exprs |-> exprs, stmts |-> stmts, decls |-> decls]

Block(decls, stmts) == Stmt("Block", <<>>, stmts, decls)

\* The parser declares the parameters in the function's scope before its
\* locals, so the body's symbols are the parameters followed by the locals.
Function(name, types, variadic, locals, stmts) == [name |-> name, types |-> types, variadic |-> variadic, body |-> Block(types \o locals, stmts)]

SymId(path, i) == <<path, i>>

\* Symbol::offset, 0 when the symbol has none yet.
SymOff(symoff, id) == IF id \in DOMAIN symoff THEN symoff[id] ELSE 0

----------------------------------------------------------------------------
(* allocator.cpp.  An allocation state is (offset, symoff).                *)

RECURSIVE AllocSymbolsBeforeDecrement(_, _, _, _)
\* Block::allocate with lines 99 and 100 swapped: the symbol takes the
\* offset before the offset is lowered by its size.
AllocSymbolsBeforeDecrement(decls, i, path, a) ==
    IF i > Len(decls) THEN a
    ELSE IF SymOff(a.symoff, SymId(path, i)) = 0
         THEN AllocSymbolsBeforeDecrement(decls, i + 1, path, [offset |-> IntSub(a.offset, TypeSize(decls[i])), symoff |-> Put(a.symoff, SymId(path, i), a.offset)])
         ELSE AllocSymbolsBeforeDecrement(decls, i + 1, path, a)

RECURSIVE AllocSymbols(_, _, _, _)
\* Block::allocate, the loop over the block's symbols from index i.
AllocSymbols(decls, i, path, a) ==
    IF i > Len(decls) THEN a
    ELSE IF SymOff(a.symoff, SymId(path, i)) = 0
         THEN LET o == IntSub(a.offset, TypeSize(decls[i]))
              IN  AllocSymbols(decls, i + 1, path, [offset |-> o, symoff |-> Put(a.symoff, SymId(path, i), o)])
         ELSE AllocSymbols(decls, i + 1, path, a)

RECURSIVE StmtAllocate(_, _, _)
RECURSIVE AllocStmts(_, _, _, _, _)

RECURSIVE AllocStmtsRunning(_, _, _, _, _)
\* Block::allocate with temp = offset in place of temp = saved: each
\* statement starts below the statements before it.
AllocStmtsRunning(stmts, j, path, saved, a) ==
    IF j > Len(stmts) THEN a
    ELSE LET t == StmtAllocate(stmts[j], path \o <<j>>, [offset |-> a.offset, symoff |-> a.symoff])
         IN  AllocStmtsRunning(stmts, j + 1, path, saved, [offset |-> Min(a.offset, t.offset), symoff |-> t.symoff])

\* Block::allocate, the loop over the block's statements from index j:
\* each starts from saved, and the block keeps the minimum.
AllocStmts(stmts, j, path, saved, a) ==
    IF j > Len(stmts) THEN a
    ELSE LET t == StmtAllocate(stmts[j], path \o <<j>>, [offset |-> saved, symoff |-> a.symoff])
         IN  AllocStmts(stmts, j + 1, path, saved, [offset |-> Min(a.offset, t.offset), symoff |-> t.symoff])

\* Block::allocate
BlockAllocate(block, path, a) ==
    LET locals == AllocSymbols(block.decls, 1, path, a)
    IN  AllocStmts(block.stmts, 1, path, locals.offset, locals)

\* If::allocate
IfAllocate(stmt, path, a) ==
    LET saved == a.offset
        then == StmtAllocate(stmt.stmts[1], path \o <<1>>, a)
    IN  IF Len(stmt.stmts) > 1
        THEN LET else == StmtAllocate(stmt.stmts[2], path \o <<2>>, [offset |-> saved, symoff |-> then.symoff])
             IN  [offset |-> Min(then.offset, else.offset), symoff |-> else.symoff]
        ELSE then

\* Statement::allocate by kind: Block, While (its statement), For (its
\* statement, the last of init, incr, body), If; any other statement
\* allocates nothing.
StmtAllocate(stmt, path, a) ==
    CASE stmt.kind = "Block" -> BlockAllocate(stmt, path, a)
      [] stmt.kind = "While" -> StmtAllocate(stmt.stmts[1], path \o <<1>>, a)
      [] stmt.kind = "For" -> StmtAllocate(stmt.stmts[3], path \o <<3>>, a)
      [] stmt.kind = "If" -> IfAllocate(stmt, path, a)
      [] OTHER -> a

\* Function::allocate without the loop of lines 198-199.
ParamAlignNone(o) == o

RECURSIVE ParamAlign(_)
\* Function::allocate: while (offset % PARAM_ALIGNMENT != 0) offset ++
ParamAlign(o) == IF CRem(o, PARAM_ALIGNMENT) # 0 THEN ParamAlign(o + 1) ELSE o

RECURSIVE AllocStackParams(_, _, _)
\* Function::allocate, first loop: the parameters passed on the stack
\* (i is the 1-based index of the parameter).
AllocStackParams(types, i, a) ==
    IF i > Len(types) THEN a
    ELSE LET o == ParamAlign(a.offset + TypeSize(types[i]))
         IN  AllocStackParams(types, i + 1, [offset |-> o, symoff |-> Put(a.symoff, SymId(<<>>, i), a.offset)])

RECURSIVE AllocRegParams(_, _, _)
\* Function::allocate, second loop: the parameters passed in registers.
AllocRegParams(types, i, a) ==
    IF i > NUM_PARAM_REGS \/ i > Len(types) THEN a
    ELSE LET o == IntSub(a.offset, TypeSize(types[i]))
         IN  AllocRegParams(types, i + 1, [offset |-> o, symoff |-> Put(a.symoff, SymId(<<>>, i), o)])

\* Function::allocate(offset)
FunctionAllocate(f, off) ==
    LET stack == AllocStackParams(f.types, NUM_PARAM_REGS + 1, [offset |-> off, symoff |-> EmptyMap])
        regs == AllocRegParams(f.types, 1, [offset |-> 0, symoff |-> stack.symoff])
    IN  BlockAllocate(f.body, <<>>, regs)

\* align(offset) of generator.cpp
align(off) ==
    IF CRem(off, STACK_ALIGNMENT) = 0 THEN 0
    ELSE STACK_ALIGNMENT - (Abs(off) % STACK_ALIGNMENT)

----------------------------------------------------------------------------
(* Tree.h: expressions.  An expression is a record (kind, kids, size, sym,  *)
(* val, variadic): size is type().size() of the node, sym the symbol of an  *)
(* Identifier (or of the called function), val the value of a Number,       *)
(* variadic the flag of a called function's parameters.                     *)

NoSym == <<>>

Expr(kind, kids, size, sym, val, variadic) == [kind |-> kind, kids |-> kids, size |-> size, sym |-> sym, val |-> val, variadic |-> variadic]

Identifier(sym, size) == Expr("Identifier", <<>>, size, sym, 0, FALSE)

Number(val, size) == Expr("Number", <<>>, size, NoSym, val, FALSE)

Unary(kind, e, size) == Expr(kind, <<e>>, size, NoSym, 0, FALSE)

Binary(kind, l, r, size) == Expr(kind, <<l, r>>, size, NoSym, 0, FALSE)

Call(args, variadic, size) == Expr("Call", args, size, NoSym, 0, variadic)

\* A global symbol: it belongs to no block of the function, so that its
\* offset stays 0.
GlobalSym(i) == SymId(<<0>>, i)

RECURSIVE NodeIn(_, _)
\* The node at path p below node n (a statement or an expression).
NodeIn(n, p) ==
    IF p = <<>> THEN n
    ELSE IF "stmts" \in DOMAIN n
         THEN IF Head(p) < 0 THEN NodeIn(n.exprs[-Head(p)], Tail(p))
              ELSE NodeIn(n.stmts[Head(p)], Tail(p))
         ELSE NodeIn(n.kids[Head(p)], Tail(p))

----------------------------------------------------------------------------
(* generator.cpp: the registers and the generator's state.                 *)

\* static vector<Register *> registers
registers == <<"rax", "rdi", "rsi", "rdx", "rcx", "r8", "r9", "r10", "r11">>

\* static vector<Register *> parameters
parameters == <<"rdi", "rsi", "rdx", "rcx", "r8", "r9">>

RegisterSet == {registers[i] : i \in 1..Len(registers)}

\* nullptr, as a Register * and as an Expression *
NoReg == "none"
NoNode == <<0>>

\* The generator's state as one record, so that the functions of
\* generator.cpp are operators from state to state.
State == [fn |-> func, symoff |-> symOffset, offset |-> offset, node |-> regNode, reg |-> exprReg, off |-> exprOffset, out |-> out, abort |-> abort, label |-> counter]

\* expr->reg
RegOf(st, p) == IF p \in DOMAIN st.reg THEN st.reg[p] ELSE NoReg

\* expr->offset
ExprOff(st, p) == IF p \in DOMAIN st.off THEN st.off[p] ELSE 0

\* The Expression at path p of the function being generated.
Node(st, p) == NodeIn(st.fn.body, p)

\* An operand of an instruction: a register, offset(%rbp), a global's name,
\* an immediate, or nothing.
Opnd(k, r, n) == [k |-> k, r |-> r, n |-> n]
NoOpnd == Opnd("none", "", 0)
RegOpnd(r) == Opnd("reg", r, 0)
MemOpnd(n) == Opnd("mem", "rbp", n)
ImmOpnd(n) == Opnd("imm", "", n)

Instr(op, size, a, b) == [op |-> op, size |-> size, a |-> a, b |-> b]

\* cout << an instruction; nothing is written once the process has aborted.
Emit(st, ins) == IF st.abort # "none" THEN st ELSE [st EXCEPT !.out = Append(@, ins)]

\* Expression::operand asserts offset != 0; Identifier, Number and String
\* override it.
OperandAsserts(st, p) ==
    /\ RegOf(st, p) = NoReg
    /\ Node(st, p).kind \notin {"Identifier", "Number", "String"}
    /\ ExprOff(st, p) = 0

\* operator<<(ostream &, Expression *): the operand written for the node.
Operand(st, p) ==
    LET e == Node(st, p)
    IN  IF RegOf(st, p) # NoReg THEN RegOpnd(RegOf(st, p))
        ELSE CASE e.kind = "Identifier" ->
                    IF SymOff(st.symoff, e.sym) = 0 THEN Opnd("global", "", e.sym[2])
                    ELSE MemOpnd(SymOff(st.symoff, e.sym))
               [] e.kind = "Number" -> ImmOpnd(e.val)
               [] e.kind = "String" -> NoOpnd
               [] OTHER -> MemOpnd(ExprOff(st, p))

\* The effect of writing node p as an operand: the assertion of
\* Expression::operand ends the process when it fails.
Use(st, p) == IF st.abort = "none" /\ OperandAsserts(st, p) THEN [st EXCEPT !.abort = "operand"] ELSE st

\* assign(expr, reg) without lines 61-64: the node the register held keeps
\* pointing at it.
assignKeepsOldNode(st, p, r) ==
    IF st.abort # "none" THEN st
    ELSE LET s1 == IF p # NoNode
                   THEN [st EXCEPT !.node = IF RegOf(st, p) # NoReg THEN [@ EXCEPT ![RegOf(st, p)] = NoNode] ELSE @,
                                   !.reg = IF r = NoReg THEN Drop(@, p) ELSE Put(@, p, r)]
                   ELSE st
         IN  IF r # NoReg THEN [s1 EXCEPT !.node = [@ EXCEPT ![r] = p]] ELSE s1

\* assign(expr, reg)
assign(st, p, r) ==
    IF st.abort # "none" THEN st
    ELSE LET s1 == IF p # NoNode
                   THEN [st EXCEPT !.node = IF RegOf(st, p) # NoReg THEN [@ EXCEPT ![RegOf(st, p)] = NoNode] ELSE @,
                                   !.reg = IF r = NoReg THEN Drop(@, p) ELSE Put(@, p, r)]
                   ELSE st
         IN  IF r # NoReg
             THEN [s1 EXCEPT !.reg = IF s1.node[r] # NoNode THEN Drop(@, s1.node[r]) ELSE @,
                             !.node = [@ EXCEPT ![r] = p]]
             ELSE s1

\* load(expr, reg), lines 75-81: the node the register holds goes to a
\* new slot of the frame
Spill(st, r) ==
    IF st.node[r] = NoNode THEN st
    ELSE LET n == st.node[r]
             o == IntSub(st.offset, Node(st, n).size)
         IN  Emit([st EXCEPT !.offset = o, !.off = Put(@, n, o)], Instr("mov", Node(st, n).size, RegOpnd(r), MemOpnd(o)))

\* load(expr, reg), lines 83-88: the node is moved into the register
Fill(st, p, r) ==
    IF p = NoNode THEN st
    ELSE Emit(Use(st, p), Instr("mov", Node(st, p).size, Operand(st, p), RegOpnd(r)))

\* load(expr, reg)
load(st, p, r) ==
    IF st.abort # "none" \/ st.node[r] = p THEN st
    ELSE assign(Fill(Spill(st, r), p, r), p, r)

\* getreg(): the first register of the pool that holds no node
FreeRegs(st) == {i \in 1..Len(registers) : st.node[registers[i]] = NoNode}

FirstFree(st) == registers[CHOOSE i \in FreeRegs(st) : \A j \in FreeRegs(st) : i <= j]

\* getreg(): the register returned
getregReg(st) == IF FreeRegs(st) # {} THEN FirstFree(st) ELSE registers[1]

\* getreg(): the state it leaves
getregState(st) == IF FreeRegs(st) # {} THEN st ELSE load(st, NoNode, registers[1])

----------------------------------------------------------------------------
(* The state of the variables, from a generator state record.              *)

SetState(s) ==
    /\ func' = s.fn
    /\ symOffset' = s.symoff
    /\ offset' = s.offset
    /\ regNode' = s.node
    /\ exprReg' = s.reg
    /\ exprOffset' = s.off
    /\ out' = s.out
    /\ abort' = s.abort
    /\ counter' = s.label

\* Function::generate, lines 346-348: the state after allocate(offset).
Allocated(f) ==
    LET a == FunctionAllocate(f, 2 * SIZEOF_REG)
    IN  [fn |-> f, symoff |-> a.symoff, offset |-> a.offset, node |-> [r \in RegisterSet |-> NoNode], reg |-> EmptyMap, off |-> EmptyMap, out |-> <<>>, abort |-> "none", label |-> 0]

----------------------------------------------------------------------------
(* generator.cpp: the generate functions, as operators from state to state. *)
(* Each leaves an aborted state as it is.                                   *)

LabelOpnd(n) == Opnd("label", "", n)

\* Dereference::isDereference (Tree.cpp): true of a Dereference, whose
\* operand it hands back; false of every other expression.
IsDereference(e) == e.kind = "Dereference"

\* load(expr, getreg())
LoadGetreg(st, p) == load(getregState(st), p, getregReg(st))

\* if (expr->reg == nullptr) load(expr, getreg())
LoadIfNone(st, p) == IF st.abort # "none" \/ RegOf(st, p) # NoReg THEN st ELSE LoadGetreg(st, p)

\* if (expr->reg == nullptr) load(expr, reg)
LoadIfNoneInto(st, p, r) == IF st.abort # "none" \/ RegOf(st, p) # NoReg THEN st ELSE load(st, p, r)

\* assign(expr, getreg())
AssignGetreg(st, p) == assign(getregState(st), p, getregReg(st))

\* assign(this, expr->reg)
AssignRegOf(st, p, e) == assign(st, p, RegOf(st, e))

\* cout << an instruction, when the condition holds
EmitIf(cond, st, ins) == IF cond THEN Emit(st, ins) ELSE st

\* cout << an instruction whose operands are the nodes a and b
Emit2(st, op, size, a, b) == Emit(Use(Use(st, a), b), Instr(op, size, Operand(st, a), Operand(st, b)))

\* cout << an instruction whose operand is the node a
Emit1(st, op, size, a) == Emit(Use(st, a), Instr(op, size, Operand(st, a), NoOpnd))

\* sign_extend_byte_arg(arg)
sign_extend_byte_arg(st, a) ==
    IF Node(st, a).size = 1
    THEN Emit(Use(st, a), Instr("movsbl", 4, Operand(st, a), RegOpnd(RegOf(st, a))))
    ELSE st

\* Call::generate without lines 251-257: no padding below the arguments.
CallPaddingNone(n) == 0

\* Call::generate, lines 251-257: the bytes of padding below n arguments
CallPadding(n) == IF n > NUM_PARAM_REGS THEN align((n - NUM_PARAM_REGS) * PARAM_ALIGNMENT) ELSE 0

RECURSIVE Generate(_, _)

RECURSIVE GenerateArgs(_, _, _)
\* Call::generate, first loop: the arguments from the i-th down to the first
GenerateArgs(st, p, i) ==
    IF i = 0 THEN st
    ELSE LET s == Generate(st, p \o <<i>>)
         IN  IF s.abort = "none" THEN GenerateArgs(s, p, i - 1) ELSE s

\* Call::generate, second loop, one argument: it goes to %rax and the
\* stack, or to its parameter register.
MoveArg(st, a, i) ==
    IF i > NUM_PARAM_REGS
    THEN assign(Emit(sign_extend_byte_arg(load(st, a, "rax"), a), Instr("pushq", 8, RegOpnd("rax"), NoOpnd)), a, NoReg)
    ELSE assign(sign_extend_byte_arg(load(st, a, parameters[i]), a), a, NoReg)

RECURSIVE MoveArgs(_, _, _)
\* Call::generate, second loop: the arguments from the i-th down to the
\* first
MoveArgs(st, p, i) ==
    IF i = 0 \/ st.abort # "none" THEN st
    ELSE MoveArgs(MoveArg(st, p \o <<i>>, i), p, i - 1)

RECURSIVE UnloadAll(_, _)
\* Call::generate: for (auto reg : registers) load(nullptr, reg)
UnloadAll(st, i) ==
    IF i > Len(registers) \/ st.abort # "none" THEN st
    ELSE UnloadAll(load(st, NoNode, registers[i]), i + 1)

\* Call::generate, lines 284-295.  numBytes is the padding and the bytes
\* pushed; the callee is named by the number of its arguments.
CallAndReclaim(st, p, n, variadic, numBytes) ==
    LET s1 == EmitIf(variadic, UnloadAll(st, 1), Instr("movl", 4, ImmOpnd(0), RegOpnd("rax")))
        s2 == Emit(s1, Instr("call", 8, Opnd("name", "", n), NoOpnd))
    IN  assign(EmitIf(numBytes > 0, s2, Instr("addq", 8, ImmOpnd(numBytes), RegOpnd("rsp"))), p, "rax")

\* Call::generate, lines 246-277, for a call of n arguments with pad bytes
\* of padding
CallArguments(st, p, n, pad) == MoveArgs(EmitIf(pad > 0, GenerateArgs(st, p, n), Instr("subq", 8, ImmOpnd(pad), RegOpnd("rsp"))), p, n)

\* The bytes of the arguments pushed: PARAM_ALIGNMENT for each beyond
\* NUM_PARAM_REGS.
PushedBytes(n) == IF n > NUM_PARAM_REGS THEN (n - NUM_PARAM_REGS) * PARAM_ALIGNMENT ELSE 0

\* Call::generate
CallGenerate(st, p) == CallAndReclaim(CallArguments(st, p, Len(Node(st, p).kids), CallPadding(Len(Node(st, p).kids))), p, Len(Node(st, p).kids), Node(st, p).variadic, CallPadding(Len(Node(st, p).kids)) + PushedBytes(Len(Node(st, p).kids)))

\* Add::generate, Subtract::generate, Multiply::generate after the operands
\* are generated
ArithCombine(st, p, op) ==
    LET l == p \o <<1>>
        r == p \o <<2>>
        s1 == LoadIfNone(st, l)
    IN  AssignRegOf(assign(Emit2(s1, op, Node(st, l).size, r, l), r, NoReg), p, l)

\* Add::generate, Subtract::generate, Multiply::generate
ArithGenerate(st, p, op) == ArithCombine(Generate(Generate(st, p \o <<1>>), p \o <<2>>), p, op)

\* Divide::generate, Remainder::generate: cqto or cltd, then idiv
EmitDivide(st, l, r) == Emit1(Emit(st, Instr(IF Node(st, l).size = 8 THEN "cqto" ELSE "cltd", 0, NoOpnd, NoOpnd)), "idiv", Node(st, r).size, r)

\* Divide::generate, Remainder::generate, lines 512-522: the operands,
\* generated, are brought to where idiv wants them
PlaceOperands(st, p) ==
    LoadIfNoneInto(load(LoadIfNoneInto(st, p \o <<1>>, "rax"), NoNode, "rdx"), p \o <<2>>, "rcx")

\* Divide::generate, Remainder::generate, lines 524-539: idiv, and the
\* result bound to this
Divided(st, p, result) ==
    assign(assign(assign(EmitDivide(st, p \o <<1>>, p \o <<2>>), p \o <<2>>, NoReg), p \o <<1>>, NoReg), p, result)

\* Divide::generate (result in rax), Remainder::generate (result in rdx)
DivideGenerate(st, p, result) ==
    Divided(PlaceOperands(Generate(Generate(st, p \o <<1>>), p \o <<2>>), p), p, result)

\* LessThan::generate, ..., lines 596-599: the condition is stored in the
\* byte register and extended into this
EmitCondition(st, byteRegister, p, set, size) ==
    Emit(Use(Emit(st, Instr(set, 1, RegOpnd(byteRegister), NoOpnd)), p), Instr("movzb", size, RegOpnd(byteRegister), Operand(st, p)))

\* LessThan::generate, ..., line 595: byteRegister = getreg()->byte()
StoreCondition(st, p, set, size) == EmitCondition(getregState(st), getregReg(st), p, set, size)

\* LessThan::generate, ..., NotEqual::generate: set is the opcode that
\* stores the condition.
CompareGenerate(st, p, set) ==
    LET l == p \o <<1>>
        r == p \o <<2>>
        s1 == LoadIfNone(Generate(Generate(st, l), r), l)
        s2 == assign(assign(Emit2(s1, "cmp", Node(st, l).size, r, l), r, NoReg), l, NoReg)
    IN  StoreCondition(AssignGetreg(s2, p), p, set, Node(st, l).size)

\* Not::generate, lines 736-743
EmitNot(st, e) ==
    LET s1 == Emit(Use(st, e), Instr("cmp", Node(st, e).size, ImmOpnd(0), Operand(st, e)))
        s2 == Emit(s1, Instr("sete", 1, RegOpnd(RegOf(st, e)), NoOpnd))
    IN  Emit(s2, Instr("movzbl", 4, RegOpnd(RegOf(st, e)), RegOpnd(RegOf(st, e))))

\* Not::generate
NotGenerate(st, p) == AssignRegOf(EmitNot(LoadIfNone(Generate(st, p \o <<1>>), p \o <<1>>), p \o <<1>>), p, p \o <<1>>)

\* Negate::generate
NegateGenerate(st, p) == AssignRegOf(Emit1(LoadIfNone(Generate(st, p \o <<1>>), p \o <<1>>), "neg", Node(st, p \o <<1>>).size, p \o <<1>>), p, p \o <<1>>)

\* Address::generate
AddressGenerate(st, p) ==
    LET e == p \o <<1>>
        pointer == e \o <<1>>
    IN  IF IsDereference(Node(st, e))
        THEN AssignRegOf(LoadIfNone(Generate(st, pointer), pointer), p, pointer)
        ELSE Emit2(AssignGetreg(st, p), "leaq", 8, e, p)

\* Expression::generate by class: Identifier, Number and String inherit
\* the empty generate of Tree.h; Dereference, Cast, LogicalAnd and LogicalOr
\* have an empty body.
Generate(st, p) ==
    LET k == Node(st, p).kind
    IN  IF st.abort # "none" THEN st
        ELSE CASE k = "Call" -> CallGenerate(st, p)
               [] k = "Add" -> ArithGenerate(st, p, "add")
               [] k = "Subtract" -> ArithGenerate(st, p, "sub")
               [] k = "Multiply" -> ArithGenerate(st, p, "mul")
               [] k = "Divide" -> DivideGenerate(st, p, "rax")
               [] k = "Remainder" -> DivideGenerate(st, p, "rdx")
               [] k = "LessThan" -> CompareGenerate(st, p, "setl")
               [] k = "GreaterThan" -> CompareGenerate(st, p, "setg")
               [] k = "LessOrEqual" -> CompareGenerate(st, p, "setle")
               [] k = "GreaterOrEqual" -> CompareGenerate(st, p, "setge")
               [] k = "Equal" -> CompareGenerate(st, p, "sete")
               [] k = "NotEqual" -> CompareGenerate(st, p, "setne")
               [] k = "Not" -> NotGenerate(st, p)
               [] k = "Negate" -> NegateGenerate(st, p)
               [] k = "Address" -> AddressGenerate(st, p)
               [] OTHER -> st

\* Expression::test, lines 772-773
EmitTest(st, p, label, ifTrue) ==
    Emit(Emit(Use(st, p), Instr("cmp", Node(st, p).size, ImmOpnd(0), Operand(st, p))), Instr(IF ifTrue THEN "jne" ELSE "je", 0, LabelOpnd(label), NoOpnd))

\* Expression::test(label, ifTrue)
Test(st, p, label, ifTrue) == assign(EmitTest(LoadIfNone(Generate(st, p), p), p, label, ifTrue), p, NoReg)

\* Simple::generate
SimpleGenerate(st, p) == assign(Generate(st, p \o <<-1>>), p \o <<-1>>, NoReg)

\* Assignment::generate, lines 441-442: mov with the suffix of right, no
\* source, and (pointer) as the destination
EmitStore(st, right, pointer) == Emit(Use(st, pointer), Instr("mov", Node(st, right).size, NoOpnd, Opnd("ind", RegOf(st, pointer), 0)))

\* Assignment::generate: the expressions of the statement are left, right.
AssignmentGenerate(st, p) ==
    LET left == p \o <<-1>>
        right == p \o <<-2>>
        pointer == left \o <<1>>
    IN  IF IsDereference(Node(st, left))
        THEN assign(assign(EmitStore(LoadIfNone(LoadIfNone(Generate(Generate(st, right), pointer), pointer), right), right, pointer), right, NoReg), left, NoReg)
        ELSE assign(assign(Emit2(LoadIfNone(Generate(st, right), right), "mov", Node(st, right).size, right, left), right, NoReg), left, NoReg)

\* for (auto reg : registers) assert(reg->node == nullptr)
BlockAssert(st) ==
    IF st.abort = "none" /\ \E r \in RegisterSet : st.node[r] # NoNode
    THEN [st EXCEPT !.abort = "block"]
    ELSE st

RECURSIVE StmtGenerate(_, _)

\* The state x, then what F makes of it: x is evaluated once.
Then(x, F(_)) == CHOOSE s \in {F(v) : v \in {x}} : TRUE

RECURSIVE BlockGenerate(_, _, _)
\* Block::generate, the loop from statement j
BlockGenerate(st, p, j) ==
    IF j > Len(Node(st, p).stmts) THEN st
    ELSE Then(BlockAssert(StmtGenerate(st, p \o <<j>>)),
              LAMBDA s : IF s.abort = "none" THEN BlockGenerate(s, p, j + 1) ELSE s)

\* While::generate: Label loop, exit take the next two numbers.
WhileGenerate(st, p) ==
    LET loop == st.label
        exit == st.label + 1
        s1 == Emit([st EXCEPT !.label = @ + 2], Instr("label", 0, LabelOpnd(loop), NoOpnd))
        s2 == StmtGenerate(Test(s1, p \o <<-1>>, exit, FALSE), p \o <<1>>)
    IN  Emit(Emit(s2, Instr("jmp", 0, LabelOpnd(loop), NoOpnd)), Instr("label", 0, LabelOpnd(exit), NoOpnd))

\* Statement::generate by class: Return, For, If and Break have an empty
\* body.
StmtGenerate(st, p) ==
    LET k == Node(st, p).kind
    IN  IF st.abort # "none" THEN st
        ELSE CASE k = "Block" -> BlockGenerate(st, p, 1)
               [] k = "Simple" -> SimpleGenerate(st, p)
               [] k = "Assignment" -> AssignmentGenerate(st, p)
               [] k = "While" -> WhileGenerate(st, p)
               [] OTHER -> st

----------------------------------------------------------------------------
(* SpecReg: the register protocol under any sequence of assign, load and   *)
(* getreg calls, on the nodes of one statement `x + 1;` of a function       *)
(* with one local.                                                          *)

\* How many expression nodes the calls are made on.
NumRegExprs == 2
\* The deepest frame the spills of SpecReg may reach, in bytes.
MaxRegFrame == 12

IntType == ScalarType("INT", 0)
LongType == ScalarType("LONG", 0)
CharType == ScalarType("CHAR", 0)
IntPtrType == ScalarType("INT", 1)

RegFunction == Function("f", <<>>, FALSE, <<IntType>>, <<Stmt("Simple", <<Binary("Add", Identifier(SymId(<<>>, 1), 4), Number(1, 4), 4)>>, <<>>, <<>>)>>)

RegNodes == <<(<<1, -1>>), (<<1, -1, 1>>), (<<1, -1, 2>>)>>

RegExprs == {RegNodes[i] : i \in 1..Min(NumRegExprs, Len(RegNodes))}

InitReg ==
    /\ func = RegFunction
    /\ symOffset = Allocated(RegFunction).symoff
    /\ offset = Allocated(RegFunction).offset
    /\ regNode = [r \in RegisterSet |-> NoNode]
    /\ exprReg = EmptyMap
    /\ exprOffset = EmptyMap
    /\ out = <<>>
    /\ abort = "none"
    /\ counter = 0
    /\ pc = "body"
    /\ todo = 0
    /\ ParserIdle

\* What one call leaves: out holds what the call wrote.
Called(s) ==
    /\ abort = "none"
    /\ s.offset >= -MaxRegFrame
    /\ SetState(s)
    /\ UNCHANGED <<pc, todo>>
    /\ UNCHANGED parserVars

\* a call assign(expr, reg); either may be nullptr
CallAssign ==
    \E p \in RegExprs \cup {NoNode}, r \in RegisterSet \cup {NoReg} :
        Called(assign([State EXCEPT !.out = <<>>], p, r))

\* a call load(expr, reg); expr may be nullptr
CallLoad ==
    \E p \in RegExprs \cup {NoNode}, r \in RegisterSet :
        Called(load([State EXCEPT !.out = <<>>], p, r))

\* a call getreg()
CallGetreg ==
    Called(getregState([State EXCEPT !.out = <<>>]))

NextReg == CallAssign \/ CallLoad \/ CallGetreg

SpecReg == InitReg /\ [][NextReg]_vars

\* C1: the back-pointers are consistent: for every register r and
\* expression e, r.node = e if and only if e.reg = r.
BackPointersConsistent ==
    \A r \in RegisterSet, p \in RegExprs \cup DOMAIN exprReg :
        (regNode[r] = p) <=> (p \in DOMAIN exprReg /\ exprReg[p] = r)

\* C1 happens: one node is bound to a register while another, evicted from
\* a register by load, has its spill slot and no register.
SomeNodeBoundAnotherSpilled ==
    \E p \in RegExprs, q \in RegExprs :
        /\ p # q
        /\ p \in DOMAIN exprReg
        /\ regNode[exprReg[p]] = p
        /\ q \in DOMAIN exprOffset
        /\ q \notin DOMAIN exprReg

----------------------------------------------------------------------------
(* SpecAlloc: Function::allocate, as Function::generate calls it, on the   *)
(* functions of AllocFunctions.                                            *)

\* The most parameters a function of the model has.
MaxParams == 8
\* The most symbols a block of the model declares (besides parameters).
MaxDecls == 1

\* parameter(): a parameter is a scalar, Type(typespec, indirection)
ParamTypes == {CharType, IntType, LongType, IntPtrType}

\* declarator(): a local is a scalar or an array of any length, 0 included
LocalTypes == {CharType, IntType, ArrayType("INT", 0, 2), ArrayType("CHAR", 0, 0)}

ParamLists == {[i \in 1..n |-> IF i % 2 = 1 THEN t1 ELSE t2] : n \in 0..MaxParams, t1 \in ParamTypes, t2 \in ParamTypes}

DeclLists == UNION {[1..k -> LocalTypes] : k \in 0..MaxDecls}

SimpleStmt == Stmt("Simple", <<Number(0, 4)>>, <<>>, <<>>)

\* The statements below the body of a function of AllocFunctions, from
\* the declarations A and B of two blocks.
BodyShapes(A, B) ==
    { <<Block(A, <<>>), SimpleStmt, Block(B, <<SimpleStmt>>)>>,
      <<Stmt("If", <<Number(1, 4)>>, <<Block(A, <<>>), Block(B, <<>>)>>, <<>>)>>,
      <<Stmt("If", <<Number(1, 4)>>, <<Block(A, <<>>)>>, <<>>), Block(B, <<>>)>>,
      <<Stmt("While", <<Number(1, 4)>>, <<Block(A, <<>>)>>, <<>>), Stmt("For", <<Number(1, 4)>>, <<SimpleStmt, SimpleStmt, Block(B, <<>>)>>, <<>>)>>,
      <<Block(A, <<Block(B, <<>>), Block(A, <<>>)>>), Block(B, <<>>)>> }

SevenInts == [i \in 1..7 |-> IntType]

\* char a[2147483615]: two of them take 66 bytes less than 2^32, more than
\* an int counts.
BigArray == ArrayType("CHAR", 0, INT_MAX - 2 * STACK_ALIGNMENT)

\* char c[66]: below two BigArrays it brings the offset back to 0.
RestArray == ArrayType("CHAR", 0, 4 * STACK_ALIGNMENT + 2)

AllocFunctions ==
    {Function("f", ps, FALSE, L, <<>>) : ps \in ParamLists, L \in {<<>>, <<IntType>>}}
    \cup {Function("f", ps, FALSE, <<BigArray, BigArray>> \o L, <<Block(B, <<>>)>>) : ps \in {<<>>, SevenInts}, L \in DeclLists \cup {<<RestArray>>}, B \in DeclLists}
    \cup {Function("f", ps, FALSE, L, body) : ps \in {<<>>, SevenInts}, L \in DeclLists,
                                              body \in UNION {BodyShapes(A, B) : A \in DeclLists, B \in DeclLists}}

NoFunction == Function("", <<>>, FALSE, <<>>, <<>>)

InitAlloc ==
    /\ func = NoFunction
    /\ symOffset = EmptyMap
    /\ offset = 0
    /\ regNode = [r \in RegisterSet |-> NoNode]
    /\ exprReg = EmptyMap
    /\ exprOffset = EmptyMap
    /\ out = <<>>
    /\ abort = "none"
    /\ counter = 0
    /\ pc = "start"
    /\ todo = 0
    /\ ParserIdle

\* Function::generate, lines 346-348: offset = 2 * SIZEOF_REG; allocate(offset)
AllocateFunction ==
    /\ pc = "start"
    /\ \E f \in AllocFunctions : SetState(Allocated(f))
    /\ pc' = "allocated"
    /\ UNCHANGED todo
    /\ UNCHANGED parserVars

NextAlloc == AllocateFunction

SpecAlloc == InitAlloc /\ [][NextAlloc]_vars

----------------------------------------------------------------------------
(* What the claims about the allocator speak of.                           *)

RECURSIVE BlockPaths(_, _)
\* The paths of the Blocks at or below a statement.
BlockPaths(stmt, path) ==
    (IF stmt.kind = "Block" THEN {path} ELSE {})
    \cup UNION {BlockPaths(stmt.stmts[j], path \o <<j>>) : j \in 1..Len(stmt.stmts)}

\* Every parameter and local of a function, of its body and nested blocks.
Symbols(f) == UNION {{SymId(bp, i) : i \in 1..Len(NodeIn(f.body, bp).decls)} : bp \in BlockPaths(f.body, <<>>)}

SymType(f, id) == NodeIn(f.body, id[1]).decls[id[2]]

IsPrefix(p, q) == Len(p) <= Len(q) /\ SubSeq(q, 1, Len(p)) = p

RECURSIVE SumSizes(_, _)
\* The bytes of the first n types of a list.
SumSizes(types, n) == IF n = 0 THEN 0 ELSE SatAdd(SumSizes(types, n - 1), TypeSize(types[n]))

RECURSIVE EntryBlocks(_, _)
\* The blocks in which the allocation of a statement begins: the statement
\* itself, the statement of a While or For, both branches of an If.
EntryBlocks(stmt, path) ==
    CASE stmt.kind = "Block" -> {path}
      [] stmt.kind = "While" -> EntryBlocks(stmt.stmts[1], path \o <<1>>)
      [] stmt.kind = "For" -> EntryBlocks(stmt.stmts[3], path \o <<3>>)
      [] stmt.kind = "If" -> UNION {EntryBlocks(stmt.stmts[j], path \o <<j>>) : j \in 1..Len(stmt.stmts)}
      [] OTHER -> {}

\* The blocks in which the statements of block bp begin their allocation.
ChildBlocks(f, bp) == UNION {EntryBlocks(NodeIn(f.body, bp).stmts[j], bp \o <<j>>) : j \in 1..Len(NodeIn(f.body, bp).stmts)}

RECURSIVE Need(_)
RECURSIVE MaxNeed(_, _)
\* The deepest chain of declarations below a statement, in bytes.
Need(stmt) ==
    CASE stmt.kind = "Block" -> SatAdd(SumSizes(stmt.decls, Len(stmt.decls)), MaxNeed(stmt.stmts, Len(stmt.stmts)))
      [] stmt.kind = "While" -> Need(stmt.stmts[1])
      [] stmt.kind = "For" -> Need(stmt.stmts[3])
      [] stmt.kind = "If" -> MaxNeed(stmt.stmts, Len(stmt.stmts))
      [] OTHER -> 0

MaxNeed(stmts, n) == IF n = 0 THEN 0 ELSE IF Need(stmts[n]) > MaxNeed(stmts, n - 1) THEN Need(stmts[n]) ELSE MaxNeed(stmts, n - 1)

\* The parameters and locals of the function take fewer bytes than an int
\* counts, so that no offset of the allocation wraps around.
FrameFits(f) == Need(f.body) < INT_MAX

\* The bytes of the parameters passed in registers.
RegParamBytes(f) == SumSizes(f.types, Min(Len(f.types), NUM_PARAM_REGS))

\* The offset below which the statements of block bp are allocated: that of
\* the block's last symbol, or for a body without locals of its last
\* register parameter.
SavedOf(f, bp) ==
    IF bp = <<>> /\ Len(f.body.decls) = Len(f.types) THEN -RegParamBytes(f)
    ELSE SymOff(symOffset, SymId(bp, Len(NodeIn(f.body, bp).decls)))

ParameterLayout ==
    pc = "allocated" =>
        \A i \in 1..Len(func.types) :
            LET o == SymOff(symOffset, SymId(<<>>, i))
                before == IF i = 1 THEN 0 ELSE SymOff(symOffset, SymId(<<>>, i - 1))
            IN  IF i <= NUM_PARAM_REGS
                THEN o < 0 /\ o = before - TypeSize(func.types[i])
                ELSE /\ o > 0
                     /\ o % 8 = 0
                     /\ (i = NUM_PARAM_REGS + 1 => o = 2 * SIZEOF_REG)
                     /\ (i > NUM_PARAM_REGS + 1 => o > before)

\* C7 happens: seven int parameters at -4, ..., -24 and 16.
SevenIntsAllocated ==
    /\ pc = "allocated"
    /\ func.types = SevenInts
    /\ \A i \in 1..6 : SymOff(symOffset, SymId(<<>>, i)) = -4 * i
    /\ SymOff(symOffset, SymId(<<>>, 7)) = 16

\* C8: the first symbol of every block in which a statement of a block
\* begins its allocation lies its size below the block's post-locals offset
\* (so siblings, and the branches of an If, reuse the same addresses), and the
\* function's resulting offset is the minimum over its statements: as long
\* as no offset wraps around, the deepest chain of nested declarations.
SiblingsStartFromSaved ==
    pc = "allocated" =>
        /\ \A bp \in BlockPaths(func.body, <<>>) :
            (bp = <<>> \/ NodeIn(func.body, bp).decls # <<>>) =>
                \A x \in ChildBlocks(func, bp) :
                    NodeIn(func.body, x).decls # <<>> =>
                        SymOff(symOffset, SymId(x, 1)) = IntSub(SavedOf(func, bp), TypeSize(NodeIn(func.body, x).decls[1]))
        /\ FrameFits(func) => offset = -RegParamBytes(func) - SumSizes(SubSeq(func.body.decls, Len(func.types) + 1, Len(func.body.decls)), Len(func.body.decls) - Len(func.types)) - MaxNeed(func.body.stmts, Len(func.body.stmts))

\* C8 happens: two sibling blocks, or the two branches of an If, declare a
\* local each, and both locals have the same negative offset.
SiblingLocalsShare ==
    /\ pc = "allocated"
    /\ \E bp \in BlockPaths(func.body, <<>>) :
        \E x \in ChildBlocks(func, bp), y \in ChildBlocks(func, bp) :
            /\ x # y
            /\ NodeIn(func.body, x).decls # <<>> /\ NodeIn(func.body, y).decls # <<>>
            /\ TypeSize(NodeIn(func.body, x).decls[1]) > 0
            /\ SymOff(symOffset, SymId(x, 1)) = SymOff(symOffset, SymId(y, 1))
            /\ SymOff(symOffset, SymId(x, 1)) < 0

----------------------------------------------------------------------------
(* SpecGen: Function::generate on the functions of GenFunctions, one step  *)
(* for the prologue, one for each statement of the body with the assertion *)
(* of Block::generate after it, one for the epilogue.                      *)

\* The most arguments of a call.
MaxArgs == 10
\* The most statements of a body.
MaxStmts == 2

\* The locals of every function of GenFunctions: int x; long y; int *p;
\* char c; b symbols are declared before them.
GenLocals == <<IntType, LongType, IntPtrType, CharType>>

LocalX(b) == Identifier(SymId(<<>>, b + 1), 4)
LocalP(b) == Identifier(SymId(<<>>, b + 3), 8)
LocalC(b) == Identifier(SymId(<<>>, b + 4), 1)
Global == Identifier(GlobalSym(1), 4)
One == Number(1, 4)

\* *p
Deref(b) == Unary("Dereference", LocalP(b), 4)

BinaryKinds == {"Add", "Subtract", "Multiply", "Divide", "Remainder", "LessThan", "GreaterThan", "LessOrEqual", "GreaterOrEqual", "Equal", "NotEqual"}

DeepKinds == {"Add", "Divide", "Remainder", "LessThan"}

Leaves(b) == {LocalX(b), One, Global, LocalC(b)}

Shallow(b) ==
    {Binary(k, l, r, 4) : k \in BinaryKinds, l \in {LocalX(b), One}, r \in {LocalX(b), Global}}
    \cup {Unary(k, LocalX(b), 4) : k \in {"Not", "Negate", "Cast"}}
    \cup {Unary("Address", LocalX(b), 8), Unary("Address", Deref(b), 8), Deref(b), Binary("Add", LocalX(b), Deref(b), 4)}

Deep(b) ==
    {Binary(k1, Binary(k2, LocalX(b), One, 4), Binary(k3, LocalX(b), Global, 4), 4) : k1 \in DeepKinds, k2 \in DeepKinds, k3 \in DeepKinds}
    \cup {Binary(k1, LocalX(b), Binary(k2, LocalX(b), One, 4), 4) : k1 \in DeepKinds, k2 \in DeepKinds}

\* f(x, ..., x) with n arguments
CallOf(b, n) == Call([i \in 1..n |-> LocalX(b)], FALSE, 4)

Calls(b) ==
    {Call([i \in 1..n |-> a], v, 4) : n \in 0..MaxArgs, a \in {LocalX(b), LocalC(b), Binary("Add", LocalX(b), One, 4)}, v \in BOOLEAN}
    \cup {Call([i \in 1..n |-> IF i = 1 THEN CallOf(b, m) ELSE LocalX(b)], FALSE, 4) : n \in {1, 7, 8}, m \in {0, 7}}
    \cup {Binary("Add", CallOf(b, 7), CallOf(b, 1), 4)}

GenExprs(b) == Leaves(b) \cup Shallow(b) \cup Deep(b) \cup Calls(b)

Simple(e) == Stmt("Simple", <<e>>, <<>>, <<>>)
Assignment(l, r) == Stmt("Assignment", <<l, r>>, <<>>, <<>>)
While(e, s) == Stmt("While", <<e>>, <<s>>, <<>>)

\* *p = x;
StoreThrough(b) == Assignment(Deref(b), LocalX(b))

FirstStmts(b) ==
    {Simple(e) : e \in GenExprs(b)}
    \cup {Assignment(LocalX(b), e) : e \in {One, Global, Binary("Add", LocalX(b), One, 4), CallOf(b, 7)}}
    \cup {Assignment(Deref(b), e) : e \in {LocalX(b), One}}
    \cup {While(c, s) : c \in {LocalX(b), Binary("LessThan", LocalX(b), One, 4)},
                        s \in {Simple(CallOf(b, 7)), Block(<<>>, <<Simple(Binary("Add", LocalX(b), One, 4))>>), Assignment(LocalX(b), One), StoreThrough(b), Block(<<>>, <<StoreThrough(b)>>)}}
    \cup {Stmt("Return", <<LocalX(b)>>, <<>>, <<>>), Stmt("If", <<LocalX(b)>>, <<Simple(LocalX(b))>>, <<>>),
          Stmt("For", <<LocalX(b)>>, <<Simple(One), Simple(One), Simple(LocalX(b))>>, <<>>), Stmt("Break", <<>>, <<>>, <<>>),
          Block(<<>>, <<Simple(LocalX(b)), Simple(CallOf(b, 7))>>)}

NextStmts(b) == {Simple(CallOf(b, 7)), StoreThrough(b), Simple(Binary("Add", LocalX(b), One, 4))}

RECURSIVE GenBodies(_, _)
\* The bodies of k statements.
GenBodies(b, k) ==
    IF k = 0 THEN {<<>>}
    ELSE IF k = 1 THEN {<<s>> : s \in FirstStmts(b)}
    ELSE {Append(body, s) : body \in GenBodies(b, k - 1), s \in NextStmts(b)}

\* The parameters of a function and the locals declared before GenLocals.
GenFrames == {<<(<<>>), (<<>>)>>, <<SevenInts, (<<>>)>>, <<(<<CharType, LongType>>), (<<>>)>>, <<(<<>>), (<<BigArray, BigArray>>)>>}

GenFunctions ==
    UNION {{Function("f", fr[1], FALSE, fr[2] \o GenLocals, body) : body \in UNION {GenBodies(Len(fr[1]) + Len(fr[2]), k) : k \in 0..MaxStmts}} : fr \in GenFrames}

RECURSIVE SpillParams(_, _)
\* Function::generate: the parameters passed in registers go to their
\* slots.
SpillParams(st, i) ==
    IF i > NUM_PARAM_REGS \/ i > Len(st.fn.types) THEN st
    ELSE SpillParams(Emit(st, Instr("mov", TypeSize(st.fn.types[i]), RegOpnd(parameters[i]), MemOpnd(SymOff(st.symoff, SymId(<<>>, i))))), i + 1)

\* Function::generate up to the body: allocate, the prologue, the spills
\* of the parameters.
Prologue(f) ==
    LET s1 == Emit(Allocated(f), Instr("label", 0, Opnd("name", f.name, 0), NoOpnd))
        s2 == Emit(s1, Instr("pushq", 8, RegOpnd("rbp"), NoOpnd))
        s3 == Emit(s2, Instr("movq", 8, RegOpnd("rsp"), RegOpnd("rbp")))
        s4 == Emit(s3, Instr("movl", 4, Opnd("name", f.name \o ".size", 0), RegOpnd("rax")))
        s5 == Emit(s4, Instr("subq", 8, RegOpnd("rax"), RegOpnd("rsp")))
    IN  SpillParams(s5, 1)

\* Function::generate after the body: the epilogue, the final alignment of
\* the frame and its size.
Epilogue(st) ==
    LET s1 == Emit(st, Instr("label", 0, Opnd("name", st.fn.name \o ".exit", 0), NoOpnd))
        s2 == Emit(s1, Instr("movq", 8, RegOpnd("rbp"), RegOpnd("rsp")))
        s3 == Emit(s2, Instr("popq", 8, RegOpnd("rbp"), NoOpnd))
        s4 == Emit(s3, Instr("ret", 0, NoOpnd, NoOpnd))
        s5 == [s4 EXCEPT !.offset = @ - align(@ - 2 * SIZEOF_REG)]
        s6 == Emit(s5, Instr(".set", 0, ImmOpnd(-s5.offset), NoOpnd))
    IN  Emit(s6, Instr(".globl", 0, Opnd("name", st.fn.name, 0), NoOpnd))

InitGen ==
    /\ func = NoFunction
    /\ symOffset = EmptyMap
    /\ offset = 0
    /\ regNode = [r \in RegisterSet |-> NoNode]
    /\ exprReg = EmptyMap
    /\ exprOffset = EmptyMap
    /\ out = <<>>
    /\ abort = "none"
    /\ counter = 0
    /\ pc = "start"
    /\ todo = 0
    /\ ParserIdle

\* Function::generate, up to _body->generate()
FunctionGenerate ==
    /\ pc = "start"
    /\ \E f \in GenFunctions : SetState(Prologue(f))
    /\ pc' = "body"
    /\ todo' = 1
    /\ UNCHANGED parserVars

\* Block::generate of the body: the next statement and the assertion
\* after it, which ends the process when a register still holds a node.
GenerateStatement ==
    /\ pc = "body"
    /\ todo <= Len(func.body.stmts)
    /\ SetState(BlockAssert(StmtGenerate(State, <<todo>>)))
    /\ pc' = IF abort' = "none" THEN "body" ELSE "aborted"
    /\ todo' = todo + 1
    /\ UNCHANGED parserVars

\* Function::generate, after _body->generate()
FunctionExit ==
    /\ pc = "body"
    /\ todo > Len(func.body.stmts)
    /\ SetState(Epilogue(State))
    /\ pc' = "done"
    /\ UNCHANGED todo
    /\ UNCHANGED parserVars

NextGen == FunctionGenerate \/ GenerateStatement \/ FunctionExit

SpecGen == InitGen /\ [][NextGen]_vars

----------------------------------------------------------------------------
(* The claims about the generator, read off the assembly written.          *)

\* What an instruction adds to %rsp; subq %rax, %rsp of the prologue takes
\* the frame off (%eax holds the size modulo 2^32, a multiple of 16 away
\* from it).
RspEffect(ins, frame) ==
    CASE ins.op = "pushq" -> -8
      [] ins.op = "popq" -> 8
      [] ins.op = "subq" /\ ins.a.k = "imm" -> -ins.a.n
      [] ins.op = "subq" /\ ins.a.k = "reg" -> -frame
      [] ins.op = "addq" /\ ins.a.k = "imm" -> ins.a.n
      [] OTHER -> 0

RECURSIVE RspBefore(_, _, _)
\* %rsp before instruction k, from 8 below a multiple of 16 at entry.
RspBefore(tr, k, frame) == IF k = 1 THEN -8 ELSE RspBefore(tr, k - 1, frame) + RspEffect(tr[k - 1], frame)

\* The frame size written in .set <funcname>.size.
FrameSize(tr) == tr[CHOOSE k \in 1..Len(tr) : tr[k].op = ".set"].a.n

\* An instruction that ends the code of a call, or the prologue.
IsCallBoundary(ins) == ins.op \in {"call", "addq"} \/ (ins.op = "subq" /\ ins.a.k = "reg")

RECURSIVE LoweredUpTo(_, _)
\* The bytes %rsp is lowered by the instructions up to the j-th, back to the
\* last call, addq or prologue.
LoweredUpTo(tr, j) == IF j = 0 \/ IsCallBoundary(tr[j]) THEN 0 ELSE LoweredUpTo(tr, j - 1) - RspEffect(tr[j], 0)

\* x rounded up to a multiple of STACK_ALIGNMENT.
RoundUp(x) == ((x + STACK_ALIGNMENT - 1) \div STACK_ALIGNMENT) * STACK_ALIGNMENT

AllRegistersFree == \A r \in RegisterSet : regNode[r] = NoNode

\* C2: when Block::generate has generated a statement of the body, every
\* register of the pool has node = null, so that its assertion holds.
RegistersFreeAfterStatement ==
    (pc \in {"body", "done"} \/ abort = "block") => AllRegistersFree

\* C3: at every call instruction of a generated function %rsp is a
\* multiple of STACK_ALIGNMENT, the function being entered with %rsp 8 off a
\* multiple of it.
RspAlignedAtCalls ==
    pc = "done" =>
        \A k \in 1..Len(out) :
            out[k].op = "call" => RspBefore(out, k, FrameSize(out)) % STACK_ALIGNMENT = 0

\* C4: for a call of n arguments, the padding subq and the pushq's before
\* the call lower %rsp by (n - NUM_PARAM_REGS) * PARAM_ALIGNMENT rounded up
\* to a multiple of STACK_ALIGNMENT when n > NUM_PARAM_REGS, and the addq
\* after the call gives exactly that back; when n <= NUM_PARAM_REGS nothing
\* lowers %rsp before the call and no addq follows it.
CallStackAdjustment ==
    \A k \in 1..Len(out) :
        out[k].op = "call" =>
            LET n == out[k].a.n
            IN  IF n > NUM_PARAM_REGS
                THEN /\ LoweredUpTo(out, k - 1) = RoundUp((n - NUM_PARAM_REGS) * PARAM_ALIGNMENT)
                     /\ k < Len(out)
                     /\ out[k + 1] = Instr("addq", 8, ImmOpnd(RoundUp((n - NUM_PARAM_REGS) * PARAM_ALIGNMENT)), RegOpnd("rsp"))
                ELSE /\ LoweredUpTo(out, k - 1) = 0
                     /\ k < Len(out) => out[k + 1].op # "addq"

\* C4 happens: a call of seven arguments has been written, below 8 bytes
\* of padding and one pushq, and a call of at most six arguments.
CallsOfSevenAndFewer ==
    /\ \E k \in 2..Len(out) - 1 :
        /\ out[k].op = "call" /\ out[k].a.n = NUM_PARAM_REGS + 1
        /\ \E i \in 1..k - 1, j \in 1..k - 1 :
            /\ i < j
            /\ out[i] = Instr("subq", 8, ImmOpnd(PARAM_ALIGNMENT), RegOpnd("rsp"))
            /\ out[j].op = "pushq" /\ out[j].a.r = "rax"
        /\ out[k + 1] = Instr("addq", 8, ImmOpnd(STACK_ALIGNMENT), RegOpnd("rsp"))
    /\ \E k \in 1..Len(out) : out[k].op = "call" /\ out[k].a.n <= NUM_PARAM_REGS

\* C5: the frame size written in .set <funcname>.size is a non-negative
\* multiple of STACK_ALIGNMENT.
FrameSizeAligned ==
    pc = "done" => (FrameSize(out) >= 0 /\ FrameSize(out) % STACK_ALIGNMENT = 0)

----------------------------------------------------------------------------
(* SpecDriver: main of parser.cpp on a translation unit of at most         *)
(* MaxItems top-level items.  An item is a function definition (with the   *)
(* number of errors the checker reports in its declarations and            *)
(* statements), a global declaration of a variable or of a function, or a  *)
(* token no function-or-global starts with.                                *)

\* The most top-level items of a translation unit.
MaxItems == 3

\* The parser's and the checker's state as one record, with what the
\* call being made has reported and what it returns.
Parser == [numerrors |-> numerrors, global |-> global, defined |-> defined, scopes |-> scopes, reported |-> <<>>, result |-> <<>>]

SetParser(ps) ==
    /\ numerrors' = ps.numerrors
    /\ global' = ps.global
    /\ defined' = ps.defined
    /\ scopes' = ps.scopes

\* report: the diagnostic goes to stderr, the error count goes up.
report(ps, message) == [ps EXCEPT !.numerrors = @ + 1, !.reported = Append(@, message)]

\* return symbol
ReturnSymbol(ps, symbol) == [ps EXCEPT !.result = symbol]

Symbol(name, type) == [name |-> name, type |-> type]

\* nullptr, for a symbol
NoSymbol == Symbol("", ErrorType)

\* Scope::find: the index of the symbol of that name, 0 for nullptr.
find(symbols, name) ==
    IF \E i \in DOMAIN symbols : symbols[i].name = name
    THEN CHOOSE i \in DOMAIN symbols : symbols[i].name = name
    ELSE 0

\* The symbols of the scope `current` points to.
current(ps) == IF ps.scopes = <<>> THEN ps.global ELSE ps.scopes[Len(ps.scopes)]

\* current->insert(symbol)
InsertCurrent(ps, symbol) ==
    IF ps.scopes = <<>> THEN [ps EXCEPT !.global = Append(@, symbol)]
    ELSE [ps EXCEPT !.scopes[Len(ps.scopes)] = Append(@, symbol)]

\* declareFunction with the current scope in place of the global scope.
declareFunctionInCurrent(ps, name, type) ==
    IF find(current(ps), name) = 0
    THEN ReturnSymbol(InsertCurrent(ps, Symbol(name, type)), Symbol(name, type))
    ELSE ReturnSymbol(IF ~TypeEq(current(ps)[find(current(ps), name)].type, type) THEN report(ps, "conflicting") ELSE ps,
                      current(ps)[find(current(ps), name)])

\* declareFunction: a redeclaration is discarded, and reported when its
\* type differs.
declareFunction(ps, name, type) ==
    IF find(ps.global, name) = 0
    THEN ReturnSymbol([ps EXCEPT !.global = Append(@, Symbol(name, type))], Symbol(name, type))
    ELSE ReturnSymbol(IF ~TypeEq(ps.global[find(ps.global, name)].type, type) THEN report(ps, "conflicting") ELSE ps,
                ps.global[find(ps.global, name)])

\* defineFunction with the name left out of the set.
DefineNothing(ps, name) == ps

\* What defineFunction does before it calls declareFunction.
Define(ps, name) == [ps EXCEPT !.defined = @ \cup {name}]

\* defineFunction
defineFunction(ps, name, type) ==
    declareFunction(Define(IF name \in ps.defined THEN report(ps, "redefined") ELSE ps, name), name, type)

\* declareVariable with the test current != global left out.
declareVariableAsGlobal(ps, name, type) ==
    IF find(current(ps), name) = 0
    THEN ReturnSymbol(InsertCurrent(ps, Symbol(name, type)), Symbol(name, type))
    ELSE ReturnSymbol(IF ~TypeEq(current(ps)[find(current(ps), name)].type, type) THEN report(ps, "conflicting") ELSE ps,
                current(ps)[find(current(ps), name)])

\* declareVariable
declareVariable(ps, name, type) ==
    IF find(current(ps), name) = 0
    THEN ReturnSymbol(InsertCurrent(ps, Symbol(name, type)), Symbol(name, type))
    ELSE ReturnSymbol(IF ps.scopes # <<>> THEN report(ps, "redeclared")
                ELSE IF ~TypeEq(current(ps)[find(current(ps), name)].type, type) THEN report(ps, "conflicting")
                ELSE ps,
                current(ps)[find(current(ps), name)])

RECURSIVE declarations_statements(_, _)
\* declarations(); statements(): the checker reports n errors in the body.
declarations_statements(ps, n) ==
    IF n = 0 THEN ps ELSE declarations_statements(report(ps, "body"), n - 1)

\* functionOrGlobal, line 971, with every function generated.
NoErrorsUnchecked(n) == n >= 0

\* functionOrGlobal, line 971: numerrors == 0
NoErrors(n) == n = 0

\* Function::generate starts from the output and the labels so far.
Resumed(st, s) == [s EXCEPT !.out = st.out \o @, !.label = st.label]

\* Function::generate up to the end of _body->generate()
BodyGenerated(st, f) == Then(Resumed(st, Prologue(f)), LAMBDA s : BlockGenerate(s, <<>>, 1))

\* Function::generate, whole: the epilogue follows the body unless an
\* assertion has ended the process.
FunctionGenerated(st, f) ==
    Then(BodyGenerated(st, f), LAMBDA s : IF s.abort = "none" THEN Epilogue(s) ELSE s)

RECURSIVE generateGlobalsOfAll(_, _, _)
\* generateGlobals without the test of isFunction.
generateGlobalsOfAll(o, symbols, i) ==
    IF i > Len(symbols) THEN o
    ELSE generateGlobalsOfAll(Append(o, Instr(".comm", 0, Opnd("name", symbols[i].name, 0), ImmOpnd(TypeSize(symbols[i].type)))), symbols, i + 1)

RECURSIVE generateGlobals(_, _, _)
\* generateGlobals, the loop from symbol i: a .comm for every symbol that
\* is not a function.
generateGlobals(o, symbols, i) ==
    IF i > Len(symbols) THEN o
    ELSE generateGlobals(IF ~IsFunction(symbols[i].type)
                         THEN Append(o, Instr(".comm", 0, Opnd("name", symbols[i].name, 0), ImmOpnd(TypeSize(symbols[i].type))))
                         ELSE o, symbols, i + 1)

\* The items of a translation unit.
Definition(f, reports) == [kind |-> "definition", name |-> f.name, type |-> FunctionType("INT", 0, f.variadic, f.types), fn |-> f, reports |-> reports]

Declaration(name, type) == [kind |-> "declaration", name |-> name, type |-> type, fn |-> NoFunction, reports |-> 0]

SyntaxError == [kind |-> "syntax", name |-> "", type |-> ErrorType, fn |-> NoFunction, reports |-> 0]

\* int f(void) { int x; long y; int *p; char c; x + 1; }
AddFunction == Function("f", <<>>, FALSE, GenLocals, <<Simple(Binary("Add", LocalX(0), One, 4))>>)

\* int g(int n) { int x; long y; int *p; char c; while (x) h(x, x, x, x, x, x, x); }
LoopFunction == Function("g", <<IntType>>, FALSE, GenLocals, <<While(LocalX(1), Simple(CallOf(1, NUM_PARAM_REGS + 1)))>>)

\* int h(void) { int x; long y; int *p; char c; *p = x; }
StoreFunction == Function("h", <<>>, FALSE, GenLocals, <<StoreThrough(0)>>)

DriverItems ==
    {Definition(AddFunction, 0), Definition(AddFunction, 1), Definition(LoopFunction, 0), Definition(StoreFunction, 0),
     Declaration("a", IntType), Declaration("a", LongType), Declaration("b", ArrayType("CHAR", 0, 10)),
     Declaration("g", IntType), Declaration("f", FunctionType("INT", 0, FALSE, <<>>)), SyntaxError}

DriverInputs == UNION {[1..n -> DriverItems] : n \in 0..MaxItems}

\* main, lines 1009-1011
InitDriver ==
    /\ func = NoFunction
    /\ symOffset = EmptyMap
    /\ offset = 0
    /\ regNode = [r \in RegisterSet |-> NoNode]
    /\ exprReg = EmptyMap
    /\ exprOffset = EmptyMap
    /\ out = <<>>
    /\ abort = "none"
    /\ counter = 0
    /\ pc = "parsing"
    /\ todo = 0
    /\ input \in DriverInputs
    /\ lookahead = 1
    /\ numerrors = 0
    /\ global = <<>>
    /\ defined = {}
    /\ scopes = <<>>
    /\ call = NoCall

\* functionOrGlobal on a function definition: the function is generated
\* when no error has been reported by the end of its body.
FunctionDefinition ==
    /\ pc = "parsing"
    /\ lookahead <= Len(input)
    /\ input[lookahead].kind = "definition"
    /\ SetParser(declarations_statements(defineFunction(Parser, input[lookahead].name, input[lookahead].type), input[lookahead].reports))
    /\ IF NoErrors(numerrors')
       THEN \E s \in {FunctionGenerated(State, input[lookahead].fn)} :
                /\ SetState(s)
                /\ pc' = IF s.abort = "none" THEN "parsing" ELSE "aborted"
       ELSE UNCHANGED <<func, symOffset, offset, regNode, exprReg, exprOffset, out, abort, counter, pc>>
    /\ lookahead' = lookahead + 1
    /\ UNCHANGED <<input, todo, call>>

\* functionOrGlobal on a declaration of a function or of a variable
GlobalDeclaration ==
    /\ pc = "parsing"
    /\ lookahead <= Len(input)
    /\ input[lookahead].kind = "declaration"
    /\ SetParser(IF IsFunction(input[lookahead].type)
                 THEN declareFunction(Parser, input[lookahead].name, input[lookahead].type)
                 ELSE declareVariable(Parser, input[lookahead].name, input[lookahead].type))
    /\ lookahead' = lookahead + 1
    /\ UNCHANGED <<func, symOffset, offset, regNode, exprReg, exprOffset, out, abort, counter, pc, input, todo, call>>

\* error(): a syntax error is reported and the process exits with
\* EXIT_FAILURE.
SyntaxErrorExit ==
    /\ pc = "parsing"
    /\ lookahead <= Len(input)
    /\ input[lookahead].kind = "syntax"
    /\ SetParser(report(Parser, "syntax"))
    /\ pc' = "failure"
    /\ UNCHANGED <<func, symOffset, offset, regNode, exprReg, exprOffset, out, abort, counter, input, lookahead, todo, call>>

\* main, lines 1016-1017: lookahead == DONE
EndOfInput ==
    /\ pc = "parsing"
    /\ lookahead > Len(input)
    /\ out' = generateGlobals(out, global, 1)
    /\ pc' = "success"
    /\ UNCHANGED <<func, symOffset, offset, regNode, exprReg, exprOffset, abort, counter, todo>>
    /\ UNCHANGED parserVars

NextDriver == FunctionDefinition \/ GlobalDeclaration \/ SyntaxErrorExit \/ EndOfInput

SpecDriver == InitDriver /\ [][NextDriver]_vars

----------------------------------------------------------------------------
(* The parser's driver: what is written of a translation unit.             *)

\* The label `name:` that Function::generate writes first.
HasLabel(o, name) == \E k \in 1..Len(o) : o[k] = Instr("label", 0, Opnd("name", name, 0), NoOpnd)

ErrorAt(i) == input[i].kind = "definition" /\ input[i].reports > 0

\* Item j declares a global variable whose name no earlier item has.
DeclaresVariable(j) ==
    /\ input[j].kind = "declaration"
    /\ ~IsFunction(input[j].type)
    /\ \A i \in 1..j - 1 : input[i].name # input[j].name

\* The .comm line of the variable an item declares.
CommOf(item) == Instr(".comm", 0, Opnd("name", item.name, 0), ImmOpnd(TypeSize(item.type)))

\* C10 as stated: at the end of the input no .comm line has been written
\* for a global variable declared after an error was reported.
NoCommPastError ==
    pc = "success" =>
        \A i \in DOMAIN input, j \in DOMAIN input :
            (i < j /\ ErrorAt(i) /\ DeclaresVariable(j))
                => ~\E k \in 1..Len(out) : out[k].op = ".comm" /\ out[k].a.r = input[j].name

\* C10, amended: at the end of the input exactly one .comm line, with its
\* size, has been written for every global variable of the translation
\* unit, whether it is declared before or after an error, and no other
\* .comm line.
CommForEveryGlobal ==
    pc = "success" =>
        /\ \A j \in DOMAIN input :
            DeclaresVariable(j) => Cardinality({k \in 1..Len(out) : out[k] = CommOf(input[j])}) = 1
        /\ Cardinality({k \in 1..Len(out) : out[k].op = ".comm"}) = Cardinality({j \in DOMAIN input : DeclaresVariable(j)})

\* C10 happens: a variable declared after an error has its .comm line.
CommPastError ==
    /\ pc = "success"
    /\ numerrors > 0
    /\ \E i \in DOMAIN input, j \in DOMAIN input :
        /\ i < j /\ ErrorAt(i) /\ DeclaresVariable(j)
        /\ \E k \in 1..Len(out) : out[k] = CommOf(input[j])

----------------------------------------------------------------------------
(* Type.cpp: the predicates and the conversions of a type.                 *)

\* Type::isScalar
isScalar(t) == t.kind = "SCALAR"

\* Type::isArray
isArray(t) == t.kind = "ARRAY"

\* Type::isNumeric
isNumeric(t) == t.kind = "SCALAR" /\ t.ind = 0

\* Type::isPointer
isPointer(t) == t.kind = "SCALAR" /\ t.ind > 0

\* Type::isCompatibleWith
isCompatibleWith(a, b) == (isNumeric(a) /\ isNumeric(b)) \/ (isScalar(a) /\ TypeEq(a, b))

\* Type::decay with every type one level deeper.
TypeDecayOfAny(t) == IF t.kind = "ERROR" THEN t ELSE ScalarType(t.spec, t.ind + 1)

\* Type::decay
TypeDecay(t) == IF t.kind = "ARRAY" THEN ScalarType(t.spec, t.ind + 1) ELSE t

\* Type::promote
TypePromote(t) == IF t.kind = "SCALAR" /\ t.ind = 0 /\ t.spec = "CHAR" THEN ScalarType("INT", 0) ELSE t

\* Type::dereference; the assertion holds wherever the checker calls it.
TypeDereference(t) == ScalarType(t.spec, t.ind - 1)

----------------------------------------------------------------------------
(* SpecType: decay and promote, applied in any order from any type of      *)
(* TypePool.                                                               *)

\* The deepest indirection of a declared type.
MaxIndirection == 2

Specifiers == {"CHAR", "INT", "LONG"}

ParameterPool == {<<>>, <<ScalarType("INT", 0)>>, <<ScalarType("CHAR", 1), ScalarType("LONG", 0)>>}

TypePool ==
    {ScalarType(sp, i) : sp \in Specifiers, i \in 0..MaxIndirection}
    \cup {ArrayType(sp, i, n) : sp \in Specifiers, i \in 0..MaxIndirection, n \in {0, 1, 10}}
    \cup {FunctionType(sp, i, v, ps) : sp \in Specifiers, i \in 0..MaxIndirection, v \in BOOLEAN, ps \in ParameterPool}
    \cup {ErrorType}

\* A call of the checker or of a type: its arguments and what it returned.
Returned(name, args, result) == [name |-> name, args |-> args, result |-> result, reported |-> <<>>]

InitType ==
    /\ func = NoFunction
    /\ symOffset = EmptyMap
    /\ offset = 0
    /\ regNode = [r \in RegisterSet |-> NoNode]
    /\ exprReg = EmptyMap
    /\ exprOffset = EmptyMap
    /\ out = <<>>
    /\ abort = "none"
    /\ counter = 0
    /\ pc = "types"
    /\ todo = 0
    /\ input = <<>>
    /\ lookahead = 1
    /\ numerrors = 0
    /\ global = <<>>
    /\ defined = {}
    /\ scopes = <<>>
    /\ \E t \in TypePool : call = Returned("type", <<>>, t)

\* Everything but the last call.
exceptCall == <<func, symOffset, offset, regNode, exprReg, exprOffset, out, abort, counter, pc, todo, input, lookahead, numerrors, global, defined, scopes>>

\* T.decay(), T being the type the last call returned
CallDecay ==
    /\ pc = "types"
    /\ call' = Returned("decay", <<call.result>>, TypeDecay(call.result))
    /\ UNCHANGED exceptCall

\* T.promote()
CallPromote ==
    /\ pc = "types"
    /\ call' = Returned("promote", <<call.result>>, TypePromote(call.result))
    /\ UNCHANGED exceptCall

NextType == CallDecay \/ CallPromote

SpecType == InitType /\ [][NextType]_vars

\* C19: decay and promote are idempotent: decaying (promoting) what decay
\* (promote) returned gives an equal type; decay changes only an ARRAY, to
\* the SCALAR of the same specifier one level of indirection deeper, and
\* promote changes only a SCALAR char of indirection 0, to int.
DecayPromoteIdempotent ==
    /\ call.name = "decay" =>
        /\ TypeEq(TypeDecay(call.result), call.result)
        /\ call.result = IF call.args[1].kind = "ARRAY"
                         THEN ScalarType(call.args[1].spec, call.args[1].ind + 1)
                         ELSE call.args[1]
    /\ call.name = "promote" =>
        /\ TypeEq(TypePromote(call.result), call.result)
        /\ call.result = IF call.args[1] = ScalarType("CHAR", 0)
                         THEN ScalarType("INT", 0)
                         ELSE call.args[1]

\* C19 happens: the last call has decayed an array to a pointer that a
\* second decay leaves alone.
ArrayDecayedToPointer ==
    /\ call.name = "decay"
    /\ call.args[1].kind = "ARRAY"
    /\ isPointer(call.result)
    /\ TypeDecay(call.result) = call.result

----------------------------------------------------------------------------
(* SpecScope: the symbol table of checker.cpp under the calls the parser   *)
(* makes: openScope, closeScope, declareVariable at any depth,             *)
(* declareFunction and defineFunction from the global scope or from the    *)
(* scope of the parameters, checkIdentifier from inside a function.        *)

\* The deepest nesting of scopes inside the global scope.
MaxScopes == 2
\* The most diagnostics of a run.
MaxReports == 2

\* The names variables are declared with.
VariableNames == {"x"}

\* The names functions are declared with.
FunctionNames == {"f", "x"}

\* The names used in expressions.
IdentifierNames == {"x"}

VariableTypes == {IntType, LongType}

FunctionTypes == {FunctionType("INT", 0, FALSE, <<>>), FunctionType("INT", 0, FALSE, <<IntType>>)}

RECURSIVE lookupFrom(_, _, _)
\* Scope::lookup from scope i of the chain outwards; the global scope is
\* the last searched.
lookupFrom(ps, name, i) ==
    IF i = 0 THEN IF find(ps.global, name) = 0 THEN NoSymbol ELSE ps.global[find(ps.global, name)]
    ELSE IF find(ps.scopes[i], name) # 0 THEN ps.scopes[i][find(ps.scopes[i], name)]
    ELSE lookupFrom(ps, name, i - 1)

\* current->lookup(name)
lookup(ps, name) == lookupFrom(ps, name, Len(ps.scopes))

\* openScope
openScope(ps) == [ps EXCEPT !.scopes = Append(@, <<>>)]

\* closeScope: the scope is returned unless it is cleaned up.
closeScope(ps, cleanup) ==
    [ps EXCEPT !.scopes = SubSeq(@, 1, Len(@) - 1), !.result = IF cleanup THEN <<>> ELSE ps.scopes[Len(ps.scopes)]]

\* checkIdentifier with nothing inserted for an undeclared name.
checkIdentifierNoInsert(ps, name) ==
    IF lookup(ps, name) = NoSymbol
    THEN ReturnSymbol(report(ps, "undeclared"), Symbol(name, ErrorType))
    ELSE ReturnSymbol(ps, lookup(ps, name))

\* checkIdentifier
checkIdentifier(ps, name) ==
    IF lookup(ps, name) = NoSymbol
    THEN ReturnSymbol(InsertCurrent(report(ps, "undeclared"), Symbol(name, ErrorType)), Symbol(name, ErrorType))
    ELSE ReturnSymbol(ps, lookup(ps, name))

InitScope ==
    /\ func = NoFunction
    /\ symOffset = EmptyMap
    /\ offset = 0
    /\ regNode = [r \in RegisterSet |-> NoNode]
    /\ exprReg = EmptyMap
    /\ exprOffset = EmptyMap
    /\ out = <<>>
    /\ abort = "none"
    /\ counter = 0
    /\ pc = "checking"
    /\ todo = 0
    /\ input = <<>>
    /\ lookahead = 1
    /\ numerrors = 0
    /\ global = <<>>
    /\ defined = {}
    /\ scopes = <<>>
    /\ call = NoCall

\* What a call of the checker leaves.
CheckerCalled(name, args, ps) ==
    /\ pc = "checking"
    /\ numerrors < MaxReports
    /\ SetParser(ps)
    /\ call' = [name |-> name, args |-> args, result |-> ps.result, reported |-> ps.reported]
    /\ UNCHANGED <<func, symOffset, offset, regNode, exprReg, exprOffset, out, abort, counter, pc, todo, input, lookahead>>

CallOpenScope ==
    /\ Len(scopes) < MaxScopes
    /\ CheckerCalled("openScope", <<>>, openScope(Parser))

CallCloseScope ==
    /\ scopes # <<>>
    /\ \E cleanup \in BOOLEAN : CheckerCalled("closeScope", <<cleanup>>, closeScope(Parser, cleanup))

CallDeclareVariable ==
    \E name \in VariableNames, type \in VariableTypes :
        CheckerCalled("declareVariable", <<name, type>>, declareVariable(Parser, name, type))

\* globalDeclarator and functionOrGlobal call it from the scope of the
\* parameters.
CallDeclareFunction ==
    /\ Len(scopes) <= 1
    /\ \E name \in FunctionNames, type \in FunctionTypes :
        CheckerCalled("declareFunction", <<name, type>>, declareFunction(Parser, name, type))

CallDefineFunction ==
    /\ Len(scopes) = 1
    /\ \E name \in FunctionNames, type \in FunctionTypes :
        CheckerCalled("defineFunction", <<name, type>>, defineFunction(Parser, name, type))

CallCheckIdentifier ==
    /\ scopes # <<>>
    /\ \E name \in IdentifierNames :
        CheckerCalled("checkIdentifier", <<name>>, checkIdentifier(Parser, name))

NextScope ==
    \/ CallOpenScope
    \/ CallCloseScope
    \/ CallDeclareVariable
    \/ CallDeclareFunction
    \/ CallDefineFunction
    \/ CallCheckIdentifier

SpecScope == InitScope /\ [][NextScope]_vars

----------------------------------------------------------------------------
(* The symbol table: what the calls of SpecScope do.                       *)

\* The symbols of the current scope.
CurrentScope == current(Parser)

\* C13: a call declareVariable(name, type) on a name absent from the
\* current scope appends the new symbol to it, returns it and reports
\* nothing; on a name present it leaves every scope as it was, returns the
\* symbol first declared, and reports exactly `redeclaration` in an inner
\* scope, `conflicting types` at global scope if and only if the types
\* differ.
DeclareVariableKeepsFirst ==
    [][call'.name = "declareVariable" =>
        IF find(CurrentScope, call'.args[1]) = 0
        THEN /\ CurrentScope' = Append(CurrentScope, Symbol(call'.args[1], call'.args[2]))
             /\ call'.result = Symbol(call'.args[1], call'.args[2])
             /\ call'.reported = <<>>
             /\ numerrors' = numerrors
        ELSE /\ global' = global
             /\ scopes' = scopes
             /\ call'.result = CurrentScope[find(CurrentScope, call'.args[1])]
             /\ call'.reported = IF scopes # <<>> THEN <<"redeclared">>
                                 ELSE IF call'.result.type # call'.args[2] THEN <<"conflicting">>
                                 ELSE <<>>
             /\ numerrors' = numerrors + Len(call'.reported)]_vars

\* C13 happens: a redeclaration with another type in an inner scope has
\* been reported and the first symbol returned.
RedeclaredInInnerScope ==
    /\ call.name = "declareVariable"
    /\ scopes # <<>>
    /\ call.reported = <<"redeclared">>
    /\ call.result.type # call.args[2]
    /\ CurrentScope[find(CurrentScope, call.args[1])] = call.result

\* C14: a call declareFunction(name, type) leaves the inner scopes as they
\* were; a name absent from the global scope is appended to it, for a name
\* present the global scope is unchanged and its symbol returned, with
\* `conflicting types` reported if and only if the types differ; and no
\* call removes a symbol of the global scope, so that once the inner scopes
\* are closed lookup finds the symbol.
DeclareFunctionIsGlobal ==
    /\ [][call'.name = "declareFunction" =>
            /\ scopes' = scopes
            /\ IF find(global, call'.args[1]) = 0
               THEN /\ global' = Append(global, Symbol(call'.args[1], call'.args[2]))
                    /\ call'.result = Symbol(call'.args[1], call'.args[2])
                    /\ call'.reported = <<>>
               ELSE /\ global' = global
                    /\ call'.result = global[find(global, call'.args[1])]
                    /\ call'.reported = IF ~TypeEq(call'.result.type, call'.args[2]) THEN <<"conflicting">> ELSE <<>>]_vars
    /\ [][call'.name = "closeScope" =>
            /\ global' = global
            /\ scopes' = <<>> => \A i \in DOMAIN global : lookup(Parser', global[i].name) = global[i]]_vars

\* C14 happens: a function declared from the scope of its parameters, one
\* of which has its name, is in the global scope and the scope of the
\* parameters is as it was.
FunctionDeclaredFromInnerScope ==
    /\ call.name = "declareFunction"
    /\ Len(scopes) = 1
    /\ find(scopes[1], call.args[1]) # 0
    /\ call.reported = <<>>
    /\ global[Len(global)] = Symbol(call.args[1], call.args[2])

\* C15: defined holds exactly the names defineFunction has been called
\* with (it starts empty, a call of defineFunction adds its name, no other
\* call changes it), and a call of defineFunction reports `redefinition` if
\* and only if its name is in defined before the call.
RedefinitionIffDefinedBefore ==
    [][/\ defined' = defined \cup (IF call'.name = "defineFunction" THEN {call'.args[1]} ELSE {})
       /\ call'.name = "defineFunction" =>
            ((\E i \in DOMAIN call'.reported : call'.reported[i] = "redefined") <=> call'.args[1] \in defined)]_vars

\* C15 happens: a second definition of a name has been reported, another
\* name being declared and not defined.
SecondDefinitionReported ==
    /\ call.name = "defineFunction"
    /\ call.reported = <<"redefined">>
    /\ \E i \in DOMAIN global : IsFunction(global[i].type) /\ global[i].name \notin defined

\* C16 as stated: a call checkIdentifier(name) on a name lookup does not
\* find reports `undeclared` once and inserts a symbol of ERROR type in the
\* current scope; on a name found it reports and inserts nothing; and while
\* the scope of that ERROR symbol is in the chain, checkIdentifier(name)
\* returns that symbol.
UndeclaredSymbolReturnedLater ==
    [][call'.name = "checkIdentifier" =>
        /\ IF lookup(Parser, call'.args[1]) = NoSymbol
           THEN /\ call'.reported = <<"undeclared">>
                /\ CurrentScope' = Append(CurrentScope, Symbol(call'.args[1], ErrorType))
                /\ call'.result = Symbol(call'.args[1], ErrorType)
           ELSE /\ call'.reported = <<>>
                /\ global' = global /\ scopes' = scopes
        /\ (\E i \in DOMAIN scopes : find(scopes[i], call'.args[1]) # 0 /\ scopes[i][find(scopes[i], call'.args[1])].type = ErrorType)
                => call'.result = Symbol(call'.args[1], ErrorType)]_vars

\* C16, amended: as above, but while the scope of the ERROR symbol is in
\* the chain checkIdentifier(name) reports nothing, and returns that symbol
\* unless a scope nested in it declares the name.
UndeclaredReportedOnce ==
    [][call'.name = "checkIdentifier" =>
        /\ IF lookup(Parser, call'.args[1]) = NoSymbol
           THEN /\ call'.reported = <<"undeclared">>
                /\ CurrentScope' = Append(CurrentScope, Symbol(call'.args[1], ErrorType))
                /\ call'.result = Symbol(call'.args[1], ErrorType)
           ELSE /\ call'.reported = <<>>
                /\ global' = global /\ scopes' = scopes
        /\ \A i \in DOMAIN scopes :
            (find(scopes[i], call'.args[1]) # 0 /\ scopes[i][find(scopes[i], call'.args[1])].type = ErrorType)
                => /\ call'.reported = <<>>
                   /\ (\A j \in i + 1..Len(scopes) : find(scopes[j], call'.args[1]) = 0)
                        => call'.result = Symbol(call'.args[1], ErrorType)]_vars

\* C16 happens: an identifier already reported as undeclared in an
\* enclosing scope has been looked up from a nested scope, with nothing
\* reported.
UndeclaredLookedUpAgain ==
    /\ call.name = "checkIdentifier"
    /\ call.reported = <<>>
    /\ call.result = Symbol(call.args[1], ErrorType)
    /\ Len(scopes) = 2
    /\ find(scopes[1], call.args[1]) # 0
    /\ find(scopes[2], call.args[1]) = 0
    /\ numerrors = 1

----------------------------------------------------------------------------
(* checker.cpp: the checks of expressions.  An expression the checker      *)
(* builds is a record (kind, type, kids, val, name): val is the value of a *)
(* Number, name the name of an Identifier or of the function of a Call.    *)

Tree(kind, type, kids, val, name) == [kind |-> kind, type |-> type, kids |-> kids, val |-> val, name |-> name]

\* checker.cpp, line 29
error == ErrorType
character == ScalarType("CHAR", 0)
integer == ScalarType("INT", 0)
longint == ScalarType("LONG", 0)

\* The type of a statement, which has none.
NoType == [kind |-> "NONE", spec |-> "INT", ind |-> 0, len |-> 0, variadic |-> FALSE, params |-> <<>>]

\* new Number(value), value an unsigned long: a literal of type long
NewNumber(value) == Tree("Number", longint, <<>>, value, "")

\* new Identifier(symbol)
NewIdentifier(symbol) == Tree("Identifier", symbol.type, <<>>, 0, symbol.name)

\* Expression::lvalue: an Identifier that is not an array, a Dereference
lvalue(e) == (e.kind = "Identifier" /\ ~isArray(e.type)) \/ e.kind = "Dereference"

\* cast(expr, type): an int literal cast to long becomes a long literal;
\* an expression of another type than `type` is wrapped in a Cast.
cast(e, type) ==
    LET expr == IF e.kind = "Number" /\ TypeEq(e.type, integer) /\ TypeEq(type, longint) THEN NewNumber(e.val) ELSE e
    IN  IF ~TypeEq(expr.type, type) THEN Tree("Cast", type, <<expr>>, 0, "") ELSE expr

\* promote(expr)
promote(e) == cast(e, TypePromote(e.type))

\* decay(expr): the expression it leaves; the type it returns is the type
\* of that expression.
decay(e) == IF isArray(e.type) THEN Tree("Address", TypeDecay(e.type), <<e>>, 0, "") ELSE e

\* extend that promotes and never widens to long.
extendByPromotion(e, type) == promote(e)

\* extend(expr, type)
extend(e, type) ==
    IF (TypeEq(e.type, character) \/ TypeEq(e.type, integer)) /\ TypeEq(type, longint)
    THEN cast(e, longint)
    ELSE promote(e)

\* scale with a literal multiplied like any other operand.
scaleUnfolded(e, size) ==
    IF size = 1 THEN extend(e, longint)
    ELSE Tree("Multiply", longint, <<extend(e, longint), NewNumber(size)>>, 0, "")

\* scale(expr, size)
scale(e, size) ==
    IF size = 1 THEN extend(e, longint)
    ELSE IF e.kind = "Number" THEN NewNumber(e.val * size)
    ELSE Tree("Multiply", longint, <<extend(e, longint), NewNumber(size)>>, 0, "")

\* scale deletes the node it is given: a literal it folds, an int literal
\* that cast replaces.
ScaleDeletes(e, size) ==
    e.kind = "Number" /\ (size # 1 \/ TypeEq(e.type, character) \/ TypeEq(e.type, integer))

\* return new <kind>(kids, type)
ReturnNode(ps, kind, kids, type) == [ps EXCEPT !.result = Tree(kind, type, kids, 0, "")]

\* The result type of a check that does not look at what its operands are.
ResultTypeOfCheck(operandsOk, ok, type) == IF ok THEN type ELSE error

\* The result type of a check: error unless no operand is error and the
\* check passes.
ResultType(operandsOk, ok, type) == IF operandsOk /\ ok THEN type ELSE error

\* A check that reports whatever its operands are.
CheckedAnyOperands(ps, operandsOk, ok, message) == IF ~ok THEN report(ps, message) ELSE ps

\* if (operands are not error) { if (!ok) report(message); }
Checked(ps, operandsOk, ok, message) == IF operandsOk /\ ~ok THEN report(ps, message) ELSE ps

\* decay(extend(left, right->type())), checker.cpp line 623 and its like
ConvertedLeft(left, right) == decay(extend(left, right.type))

\* decay(extend(right, left->type())), with left already converted
ConvertedRight(left, right) == decay(extend(right, ConvertedLeft(left, right).type))

\* checkAdd(left, right)
checkAdd(ps, left, right) ==
    LET l == ConvertedLeft(left, right)
        r == ConvertedRight(left, right)
        t1 == l.type
        t2 == r.type
        operandsOk == ~TypeEq(t1, error) /\ ~TypeEq(t2, error)
    IN  IF operandsOk /\ isNumeric(t1) /\ isNumeric(t2) THEN ReturnNode(ps, "Add", <<l, r>>, t1)
        ELSE IF operandsOk /\ isPointer(t1) /\ isNumeric(t2)
        THEN ReturnNode(ps, "Add", <<l, scale(r, TypeSize(TypeDereference(t1)))>>, t1)
        ELSE IF operandsOk /\ isNumeric(t1) /\ isPointer(t2)
        THEN ReturnNode(ps, "Add", <<scale(l, TypeSize(TypeDereference(t2))), r>>, t2)
        ELSE ReturnNode(Checked(ps, operandsOk, FALSE, "invalid operands to binary +"), "Add", <<l, r>>, error)

\* checkArray(left, right)
checkArray(ps, left, right) ==
    LET l == decay(promote(left))
        r == decay(extend(right, longint))
        t1 == l.type
        t2 == r.type
        operandsOk == ~TypeEq(t1, error) /\ ~TypeEq(t2, error)
        ok == isPointer(t1) /\ isNumeric(t2)
        scaled == IF operandsOk /\ ok THEN scale(r, TypeSize(TypeDereference(t1))) ELSE r
        add == Tree("Add", t1, <<l, scaled>>, 0, "")
    IN  ReturnNode(Checked(ps, operandsOk, ok, "invalid operands to binary []"), "Dereference", <<add>>,
                   ResultType(operandsOk, ok, TypeDereference(t1)))

\* checkSubtract(left, right); same is the value that the test of line 686
\* has, drawn from SameAtReturn.
checkSubtract(ps, left, right, same) ==
    LET l == ConvertedLeft(left, right)
        r == ConvertedRight(left, right)
        t1 == l.type
        t2 == r.type
        operandsOk == ~TypeEq(t1, error) /\ ~TypeEq(t2, error)
        pointers == isPointer(t1) /\ TypeEq(t1, t2)
        offset_ == isPointer(t1) /\ isNumeric(t2)
        ok == (isNumeric(t1) /\ isNumeric(t2)) \/ pointers \/ offset_
        result == IF isNumeric(t1) /\ isNumeric(t2) THEN t1 ELSE IF pointers THEN longint ELSE t1
        scaled == IF operandsOk /\ ~pointers /\ offset_ THEN scale(r, TypeSize(TypeDereference(t1))) ELSE r
        expr == Tree("Subtract", ResultType(operandsOk, ok, result), <<l, scaled>>, 0, "")
        checked == Checked(ps, operandsOk, ok, "invalid operands to binary -")
    IN  IF same
        THEN ReturnNode(checked, "Divide", <<expr, NewNumber(TypeSize(TypeDereference(t1)))>>, longint)
        ELSE [checked EXCEPT !.result = expr]

\* checkSubtract, line 677: scale has deleted the node that t2 refers to,
\* and line 686 reads t2.
ReadsDeleted(left, right) ==
    LET l == ConvertedLeft(left, right)
        r == ConvertedRight(left, right)
    IN  /\ isPointer(l.type) /\ isNumeric(r.type)
        /\ ScaleDeletes(r, TypeSize(TypeDereference(l.type)))

\* The values the test of line 686, t1.isPointer() && t1 == t2, can have:
\* the one of the operand types, or either when t2 is read after the
\* delete.
SameAtReturn(left, right) ==
    IF ReadsDeleted(left, right) THEN BOOLEAN
    ELSE {isPointer(ConvertedLeft(left, right).type)
          /\ TypeEq(ConvertedLeft(left, right).type, ConvertedRight(left, right).type)}

\* checkNot, checkNegate, checkDereference: the operand converted, the
\* check on its type t, and the result type.
checkUnary(ps, kind, e, ok, type, message) ==
    ReturnNode(Checked(ps, ~TypeEq(e.type, error), ok, message), kind, <<e>>,
               ResultType(~TypeEq(e.type, error), ok, type))

\* checkNot(expr)
checkNot(ps, expr) ==
    LET e == decay(promote(expr))
    IN  checkUnary(ps, "Not", e, isScalar(e.type), integer, "invalid operand to unary !")

\* checkNegate(expr)
checkNegate(ps, expr) ==
    LET e == decay(promote(expr))
    IN  checkUnary(ps, "Negate", e, isNumeric(e.type), e.type, "invalid operand to unary -")

\* checkDereference(expr)
checkDereference(ps, expr) ==
    LET e == decay(expr)
    IN  checkUnary(ps, "Dereference", e, isPointer(e.type), TypeDereference(e.type), "invalid operand to unary *")

\* checkAddress(expr)
checkAddress(ps, expr) ==
    checkUnary(ps, "Address", expr, lvalue(expr), ScalarType(expr.type.spec, expr.type.ind + 1), "lvalue required in expression")

\* An unsigned long as its four 16-bit digits, the lowest first.
Digit == 65536
Wide(n) == <<n % Digit, (n \div Digit) % Digit, 0, 0>>

\* The unsigned long product of w and a factor below 2^15, modulo 2^64.
WideTimes(w, c) ==
    LET d1 == w[1] * c
        d2 == w[2] * c + d1 \div Digit
        d3 == w[3] * c + d2 \div Digit
        d4 == w[4] * c + d3 \div Digit
    IN  <<d1 % Digit, d2 % Digit, d3 % Digit, d4 % Digit>>

\* Type::size as the unsigned long it is
TypeSizeWide(t) == WideTimes(Wide(IF t.kind = "ARRAY" THEN t.len ELSE 1), TypeSize([t EXCEPT !.kind = "SCALAR"]))

\* The conversion of an unsigned long to unsigned: its low 32 bits.
ToUnsigned(w) == <<w[1], w[2], 0, 0>>

\* The conversion of an unsigned long to unsigned long: all of it.
ToUnsignedLong(w) == w

\* The value of an unsigned long below 2^31.
Narrow(w) == w[1] + w[2] * Digit

\* checkSizeof, lines 498-503: unsigned size = 0, or t.size()
SizeofOperand(t) ==
    IF TypeEq(t, error) \/ IsFunction(t) THEN Wide(0) ELSE ToUnsigned(TypeSizeWide(t))

\* checkSizeof(expr)
checkSizeof(ps, expr) ==
    [Checked(ps, ~TypeEq(expr.type, error), ~IsFunction(expr.type), "invalid operand in sizeof expression")
     EXCEPT !.result = NewNumber(Narrow(SizeofOperand(expr.type)))]

\* checkCast(type, expr)
checkCast(ps, type, expr) ==
    LET e == decay(expr)
        t == e.type
        operandsOk == ~TypeEq(t, error)
        ok == \/ isNumeric(type) /\ isNumeric(t)
              \/ isPointer(type) /\ isPointer(t)
              \/ isPointer(type) /\ TypeEq(t, longint)
              \/ TypeEq(type, longint) /\ isPointer(t)
    IN  [Checked(ps, operandsOk, ok, "invalid operand in cast expression")
         EXCEPT !.result = cast(e, ResultType(operandsOk, ok, type))]

\* The checks of the binary operators that share a private check.
Multiplicative == {"Multiply", "Divide", "Remainder"}
Comparative == {"LessThan", "GreaterThan", "LessOrEqual", "GreaterOrEqual", "Equal", "NotEqual"}
Logical == {"LogicalAnd", "LogicalOr"}

\* checkMultiplicative and its callers checkMultiply, checkDivide,
\* checkRemainder
checkMultiplicative(ps, kind, left, right) ==
    LET l == ConvertedLeft(left, right)
        r == ConvertedRight(left, right)
        operandsOk == ~TypeEq(l.type, error) /\ ~TypeEq(r.type, error)
        ok == isNumeric(l.type) /\ isNumeric(r.type)
    IN  ReturnNode(Checked(ps, operandsOk, ok, "invalid operands to binary"), kind, <<l, r>>,
                   ResultType(operandsOk, ok, l.type))

\* checkComparative and its callers
checkComparative(ps, kind, left, right) ==
    LET l == ConvertedLeft(left, right)
        r == ConvertedRight(left, right)
        operandsOk == ~TypeEq(l.type, error) /\ ~TypeEq(r.type, error)
        ok == isCompatibleWith(l.type, r.type)
    IN  ReturnNode(Checked(ps, operandsOk, ok, "invalid operands to binary"), kind, <<l, r>>,
                   ResultType(operandsOk, ok, integer))

\* checkLogical and its callers checkLogicalAnd, checkLogicalOr
checkLogical(ps, kind, left, right) ==
    LET l == decay(promote(left))
        r == decay(promote(right))
        operandsOk == ~TypeEq(l.type, error) /\ ~TypeEq(r.type, error)
        ok == isScalar(l.type) /\ isScalar(r.type)
    IN  ReturnNode(Checked(ps, operandsOk, ok, "invalid operands to binary"), kind, <<l, r>>,
                   ResultType(operandsOk, ok, integer))

\* return new Call(id, args, type)
ReturnCall(ps, id, args, type) == [ps EXCEPT !.result = Tree("Call", type, args, 0, id.name)]

\* What a check that does not return leaves in place of a result.
NoReturn == Tree("", NoType, <<>>, 0, "")

RECURSIVE checkExtraArguments(_, _, _, _)
\* checkCall, lines 346-351: the arguments after the parameters; i is
\* advanced only past an argument whose type is not error.
checkExtraArguments(ps, id, args, i) ==
    IF i > Len(args) THEN ReturnCall(ps, id, args, ScalarType(id.type.spec, id.type.ind))
    ELSE IF TypeEq(args[i].type, error) THEN [ps EXCEPT !.result = NoReturn]
    ELSE LET a == decay(promote(args[i]))
         IN  IF ~isScalar(a.type)
             THEN ReturnCall(report(ps, "invalid arguments to called function"), id, [args EXCEPT ![i] = a], error)
             ELSE checkExtraArguments(ps, id, [args EXCEPT ![i] = a], i + 1)

RECURSIVE checkArguments(_, _, _, _)
\* checkCall, lines 337-344: the arguments of the parameters
checkArguments(ps, id, args, i) ==
    IF i > Len(id.type.params) THEN checkExtraArguments(ps, id, args, i)
    ELSE IF TypeEq(args[i].type, error) THEN checkArguments(ps, id, args, i + 1)
    ELSE LET a == decay(args[i])
         IN  IF ~isCompatibleWith(id.type.params[i], a.type)
             THEN ReturnCall(report(ps, "invalid arguments to called function"), id, [args EXCEPT ![i] = a], error)
             ELSE checkArguments(ps, id, [args EXCEPT ![i] = cast(a, id.type.params[i])], i + 1)

\* checkCall(id, args)
checkCall(ps, id, args) ==
    LET t == id.type
    IN  IF TypeEq(t, error) THEN ReturnCall(ps, id, args, error)
        ELSE IF ~IsFunction(t) THEN ReturnCall(report(ps, "called object is not a function"), id, args, error)
        ELSE IF Len(args) < Len(t.params)
        THEN ReturnCall(report(ps, "invalid arguments to called function"), id, args, error)
        ELSE IF ~t.variadic /\ Len(args) > Len(t.params)
        THEN ReturnCall(report(ps, "invalid arguments to called function"), id, args, error)
        ELSE checkArguments(ps, id, args, 1)

\* checkTest returning the node it was given.
checkTestOfOperand(ps, expr) ==
    LET e == decay(promote(expr))
    IN  [Checked(ps, ~TypeEq(e.type, error), isScalar(e.type), "scalar type required in statement")
         EXCEPT !.result = expr]

\* checkTest(expr)
checkTest(ps, expr) ==
    LET e == decay(promote(expr))
    IN  [Checked(ps, ~TypeEq(e.type, error), isScalar(e.type), "scalar type required in statement")
         EXCEPT !.result = e]

\* checkAssignment(left, right)
checkAssignment(ps, left, right) ==
    LET r == decay(right)
        operandsOk == ~TypeEq(left.type, error) /\ ~TypeEq(r.type, error)
        ok == lvalue(left) /\ isCompatibleWith(left.type, r.type)
        message == IF ~lvalue(left) THEN "lvalue required in expression" ELSE "invalid operands to binary ="
        converted == IF operandsOk /\ ok THEN cast(r, left.type) ELSE r
    IN  ReturnNode(Checked(ps, operandsOk, ok, message), "Assignment", <<left, converted>>, NoType)

\* checkReturn(expr, type)
checkReturn(ps, expr, type) ==
    LET e == decay(expr)
        operandsOk == ~TypeEq(e.type, error)
        ok == isCompatibleWith(e.type, type)
        converted == IF operandsOk /\ ok THEN cast(e, type) ELSE e
    IN  ReturnNode(Checked(ps, operandsOk, ok, "invalid return type"), "Return", <<converted>>, NoType)

----------------------------------------------------------------------------
(* SpecCheck: the parser checks one expression bottom-up.  Its first check *)
(* has operands of Primaries; each later check has the result of the check    *)
(* before it as an operand; a check of a statement ends the run.           *)

\* The checks of one run.
MaxDepth == 2

\* The length of int b[1073741824], an array of 2^32 bytes.
HugeLength == 1073741824

\* primaryExpression, parser.cpp lines 286-331: a literal, or the
\* identifier of a symbol that checkIdentifier returned; "u" is undeclared.
Primaries ==
    {NewIdentifier(Symbol("x", integer)), NewIdentifier(Symbol("c", character)),
     NewIdentifier(Symbol("p", ScalarType("INT", 1))), NewIdentifier(Symbol("q", ScalarType("CHAR", 1))),
     NewIdentifier(Symbol("a", ArrayType("INT", 0, 2))), NewIdentifier(Symbol("f", FunctionType("INT", 0, FALSE, <<>>))),
     NewIdentifier(Symbol("u", error)), Tree("Number", integer, <<>>, 2, ""), NewNumber(3),
     NewIdentifier(Symbol("l", longint)), NewIdentifier(Symbol("b", ArrayType("INT", 0, HugeLength)))}

\* The operands that every operand is paired with in the first check, and
\* the operand left and right of the result before in a later check.
LeftPartner == NewIdentifier(Symbol("p", ScalarType("INT", 1)))
RightPartner == NewIdentifier(Symbol("x", integer))
Partners == {LeftPartner, RightPartner, NewIdentifier(Symbol("l", longint))}

\* The symbols called: two functions, a variable and an undeclared name;
\* a later check calls the functions.
Functions ==
    {Symbol("g", FunctionType("INT", 0, FALSE, <<integer>>)),
     Symbol("h", FunctionType("INT", 1, TRUE, <<ScalarType("INT", 1)>>))}
Callees == Functions \cup {Symbol("x", integer), Symbol("u", error)}

\* The types of casts and of returns.
CastTypes == {integer, longint, ScalarType("CHAR", 1)}

BinaryChecks == {"Add", "Subtract", "Array"} \cup Multiplicative \cup Comparative \cup Logical
PrefixChecks == {"Not", "Negate", "Dereference", "Address", "Sizeof"}

\* The binary operators of the checks after the first.
NestedChecks == {"Add", "Subtract", "Array", "Multiply", "LessThan", "LogicalAnd"}

\* parser.cpp: the check that each operator is given to
checkBinary(ps, kind, left, right, same) ==
    IF kind = "Add" THEN checkAdd(ps, left, right)
    ELSE IF kind = "Subtract" THEN checkSubtract(ps, left, right, same)
    ELSE IF kind = "Array" THEN checkArray(ps, left, right)
    ELSE IF kind \in Multiplicative THEN checkMultiplicative(ps, kind, left, right)
    ELSE IF kind \in Comparative THEN checkComparative(ps, kind, left, right)
    ELSE checkLogical(ps, kind, left, right)

checkPrefix(ps, kind, expr) ==
    IF kind = "Not" THEN checkNot(ps, expr)
    ELSE IF kind = "Negate" THEN checkNegate(ps, expr)
    ELSE IF kind = "Dereference" THEN checkDereference(ps, expr)
    ELSE IF kind = "Address" THEN checkAddress(ps, expr)
    ELSE checkSizeof(ps, expr)

\* No check has been made yet.
Fresh == call.name = "none"

IsExpression(e) == e.type.kind # "NONE"

\* The operands a check can be given now.
Singles == IF Fresh THEN Primaries ELSE {call.result}
Pairs ==
    IF Fresh THEN (Primaries \X Partners) \cup (Partners \X Primaries)
    ELSE {<<call.result, RightPartner>>, <<LeftPartner, call.result>>}
Kinds == IF Fresh THEN BinaryChecks ELSE NestedChecks
Callable == IF Fresh THEN Callees ELSE Functions
Arguments == {<<>>} \cup {<<a>> : a \in Singles} \cup Pairs
Targets == IF Fresh THEN CastTypes ELSE {longint, ScalarType("CHAR", 1)}

InitCheck ==
    /\ func = NoFunction
    /\ symOffset = EmptyMap
    /\ offset = 0
    /\ regNode = [r \in RegisterSet |-> NoNode]
    /\ exprReg = EmptyMap
    /\ exprOffset = EmptyMap
    /\ out = <<>>
    /\ abort = "none"
    /\ counter = 0
    /\ pc = "expression"
    /\ todo = MaxDepth
    /\ input = <<>>
    /\ lookahead = 1
    /\ numerrors = 0
    /\ global = <<>>
    /\ defined = {}
    /\ scopes = <<>>
    /\ call = NoCall

\* What a check of the expression leaves; a check that does not return
\* leaves the parser in it.
ExpressionChecked(name, args, ps) ==
    /\ pc = "expression"
    /\ todo > 0
    /\ IF Fresh THEN TRUE ELSE IsExpression(call.result)
    /\ SetParser(ps)
    /\ call' = [name |-> name, args |-> args, result |-> ps.result, reported |-> ps.reported]
    /\ todo' = todo - 1
    /\ pc' = IF ps.result = NoReturn THEN "hung" ELSE pc
    /\ UNCHANGED <<func, symOffset, offset, regNode, exprReg, exprOffset, out, abort, counter, input, lookahead>>

CallCheckBinary ==
    \E kind \in Kinds : \E pair \in Pairs : \E same \in SameAtReturn(pair[1], pair[2]) :
        ExpressionChecked("check" \o kind, <<pair[1], pair[2]>>, checkBinary(Parser, kind, pair[1], pair[2], same))

CallCheckPrefix ==
    \E kind \in PrefixChecks : \E expr \in Singles :
        ExpressionChecked("check" \o kind, <<expr>>, checkPrefix(Parser, kind, expr))

CallCheckCast ==
    \E type \in Targets : \E expr \in Singles :
        ExpressionChecked("checkCast", <<expr>>, checkCast(Parser, type, expr))

CallCheckCall ==
    \E id \in Callable : \E args \in Arguments :
        ExpressionChecked("checkCall", <<NewIdentifier(id)>> \o args, checkCall(Parser, id, args))

CallCheckAssignment ==
    \E pair \in Pairs :
        ExpressionChecked("checkAssignment", <<pair[1], pair[2]>>, checkAssignment(Parser, pair[1], pair[2]))

CallCheckReturn ==
    \E type \in Targets : \E expr \in Singles :
        ExpressionChecked("checkReturn", <<expr>>, checkReturn(Parser, expr, type))

CallCheckTest ==
    \E expr \in Singles :
        ExpressionChecked("checkTest", <<expr>>, checkTest(Parser, expr))

NextCheck ==
    \/ CallCheckBinary
    \/ CallCheckPrefix
    \/ CallCheckCast
    \/ CallCheckCall
    \/ CallCheckAssignment
    \/ CallCheckReturn
    \/ CallCheckTest

SpecCheck == InitCheck /\ [][NextCheck]_vars

----------------------------------------------------------------------------
(* The nodes that checkAdd, checkArray and checkSubtract build.            *)

\* The operands of the last call after the conversions of its check.
ConvertedOperands ==
    IF call.name = "checkArray"
    THEN <<decay(promote(call.args[1])), decay(extend(call.args[2], longint))>>
    ELSE <<ConvertedLeft(call.args[1], call.args[2]), ConvertedRight(call.args[1], call.args[2])>>

\* The last call has combined a pointer with a numeric operand in an Add.
CombinesPointerWithNumeric ==
    /\ call.name \in {"checkAdd", "checkArray"}
    /\ \/ isPointer(ConvertedOperands[1].type) /\ isNumeric(ConvertedOperands[2].type)
       \/ call.name = "checkAdd" /\ isNumeric(ConvertedOperands[1].type) /\ isPointer(ConvertedOperands[2].type)

PointerSide == IF isPointer(ConvertedOperands[1].type) THEN 1 ELSE 2

\* The Add node of the last call, its numeric side, the operand that side
\* was made of, and the size of what the pointer points to.
AddOfCall == IF call.name = "checkArray" THEN call.result.kids[1] ELSE call.result
NumericSide == AddOfCall.kids[3 - PointerSide]
NumericOperand == ConvertedOperands[3 - PointerSide]
ElemSize == TypeSize(TypeDereference(ConvertedOperands[PointerSide].type))

\* e is Multiply(_, Number(size), LONG)
IsMultiplyBy(e, size) ==
    e.kind = "Multiply" /\ TypeEq(e.type, longint) /\ Len(e.kids) = 2 /\ e.kids[2] = NewNumber(size)

\* C17 as stated: when checkAdd or checkArray combines a pointer with a
\* numeric operand, the numeric side of the Add is Multiply(_,
\* Number(elem_size), LONG), or the operand extended to long when elem_size
\* is 1.
ScaledByMultiply ==
    CombinesPointerWithNumeric =>
        IF ElemSize = 1 THEN NumericSide = extend(NumericOperand, longint)
        ELSE IsMultiplyBy(NumericSide, ElemSize)

\* C17: when checkAdd or checkArray combines a pointer with a numeric
\* operand, the numeric side of the Add is the operand extended to long when
\* elem_size is 1, else the long literal of value * elem_size when the
\* operand is a literal, else Multiply(operand extended to long,
\* Number(elem_size), LONG).
ScaledOrFolded ==
    CombinesPointerWithNumeric =>
        IF ElemSize = 1 THEN NumericSide = extend(NumericOperand, longint)
        ELSE IF NumericOperand.kind = "Number" THEN NumericSide = NewNumber(NumericOperand.val * ElemSize)
        ELSE IsMultiplyBy(NumericSide, ElemSize) /\ NumericSide.kids[1] = extend(NumericOperand, longint)

\* A pointer to int has been added to, or indexed by, a literal.
LiteralScaled ==
    CombinesPointerWithNumeric /\ ElemSize # 1 /\ NumericOperand.kind = "Number" /\ numerrors = 0

\* The operands of the last call, a checkSubtract, have equal pointer types
\* after conversion.
EqualPointers ==
    isPointer(ConvertedOperands[1].type) /\ TypeEq(ConvertedOperands[1].type, ConvertedOperands[2].type)

\* C18: checkSubtract on operands of equal pointer types returns
\* Divide(Subtract(left, right), Number(elem_size), LONG), the operands
\* not scaled and the Subtract of type long; on any other operands it
\* returns the Subtract node.
DividesOnlyPointerDifference ==
    call.name = "checkSubtract" =>
        IF EqualPointers
        THEN call.result = Tree("Divide", longint,
                                <<Tree("Subtract", longint, ConvertedOperands, 0, ""), NewNumber(ElemSize)>>, 0, "")
        ELSE call.result.kind = "Subtract"

\* The same of the calls in which line 686 reads no deleted node.
DividesPointerDifferenceOfLiveOperands ==
    call.name = "checkSubtract" /\ ~ReadsDeleted(call.args[1], call.args[2]) =>
        IF EqualPointers
        THEN call.result = Tree("Divide", longint,
                                <<Tree("Subtract", longint, ConvertedOperands, 0, ""), NewNumber(ElemSize)>>, 0, "")
        ELSE call.result.kind = "Subtract"

----------------------------------------------------------------------------
(* Operands of type error.                                                 *)

ExpressionChecks == {"check" \o kind : kind \in BinaryChecks \cup PrefixChecks} \cup {"checkCast", "checkCall"}
StatementChecks == {"checkAssignment", "checkReturn", "checkTest"}

\* An operand of the last call has type error; the first operand of a
\* checkCall is the called identifier.
ErrorOperand == \E i \in DOMAIN call.args : TypeEq(call.args[i].type, error)

\* The operand of type error is what an earlier check returned for an
\* invalid expression, not an undeclared identifier.
ErrorOperandChecked ==
    \E i \in DOMAIN call.args : TypeEq(call.args[i].type, error) /\ call.args[i].kind # "Identifier"

\* An operand of type error that the check of the last call looks at
\* before anything else: of checkCall, the called identifier alone.
ErrorOperandSeen == IF call.name = "checkCall" THEN TypeEq(call.args[1].type, error) ELSE ErrorOperand

\* C11 as stated: every check of an expression returns a node of type error
\* when the check fails or any of its operands, call arguments included,
\* has type error.
ErrorWheneverFailedOrErrorOperand ==
    call.name \in ExpressionChecks /\ (call.reported # <<>> \/ ErrorOperand)
        => TypeEq(call.result.type, error)

\* C11: every check of an expression but checkSizeof returns a node of type
\* error when the check fails or an operand has type error, the operand of
\* checkCall being the called identifier; checkSizeof returns a Number that
\* is never of type error.
ErrorWhenFailedOrErrorOperandSeen ==
    /\ call.name \in ExpressionChecks \ {"checkSizeof"} /\ (call.reported # <<>> \/ ErrorOperandSeen)
        => TypeEq(call.result.type, error)
    /\ call.name = "checkSizeof" => call.result.kind = "Number" /\ ~TypeEq(call.result.type, error)

\* A check of an expression has been given what an earlier check returned
\* for an invalid expression, and returns a node of type error.
ErrorPropagated ==
    /\ call.name \in ExpressionChecks \ {"checkSizeof", "checkCall"}
    /\ ErrorOperandChecked
    /\ TypeEq(call.result.type, error)

\* C12 as stated: a check with an operand of type error, a call argument
\* included, reports nothing.
SilentOnAnyErrorOperand ==
    call.name \in ExpressionChecks \cup StatementChecks /\ ErrorOperand => call.reported = <<>>

\* C12: a check with an operand of type error reports nothing, the operand
\* of checkCall being the called identifier and not an argument; and no
\* check reports more than once.
SilentOnErrorOperandSeen ==
    /\ call.name \in ExpressionChecks \cup StatementChecks /\ ErrorOperandSeen => call.reported = <<>>
    /\ call.name \in ExpressionChecks \cup StatementChecks => Len(call.reported) <= 1

\* An invalid expression has been reported once, and the check that was
\* given the node of type error returned for it has reported nothing.
ReportedOnceBelow ==
    /\ call.name \in (ExpressionChecks \cup StatementChecks) \ {"checkCall"}
    /\ ErrorOperandChecked
    /\ numerrors = 1
    /\ call.reported = <<>>

----------------------------------------------------------------------------
(* SpecDivide: Divide::generate and Remainder::generate step by step, for  *)
(* a division that is the expression of a statement or the right operand   *)
(* of an addition that is.                                                 *)

\* int x; long y; and literals, sums, quotients and remainders of them
DivideOperands ==
    {LocalX(0), Number(2, 4), Identifier(SymId(<<>>, 2), 8),
     Binary("Add", LocalX(0), Number(2, 4), 4), Binary("Add", Identifier(SymId(<<>>, 2), 8), Number(2, 8), 8),
     Binary("Divide", LocalX(0), LocalX(0), 4), Binary("Remainder", LocalX(0), LocalX(0), 4)}

Divisions ==
    {Binary(kind, l, r, l.size) : kind \in {"Divide", "Remainder"}, l \in DivideOperands, r \in DivideOperands}

\* The division alone, added to x, and added to x + 2.
DivideExprs ==
    Divisions \cup {Binary("Add", sibling, d, d.size) : sibling \in {LocalX(0), Binary("Add", LocalX(0), Number(2, 4), 4)}, d \in Divisions}

DivideFunctions == {Function("f", <<>>, FALSE, GenLocals, <<Simple(e)>>) : e \in DivideExprs}

\* The expression of the statement, and the division in it.
ExprPath == <<1, -1>>
DividePath == IF func.body.stmts[1].exprs[1].kind = "Add" THEN ExprPath \o <<2>> ELSE ExprPath
DivideLeft == DividePath \o <<1>>
DivideRight == DividePath \o <<2>>

InitDivide ==
    /\ func = NoFunction
    /\ symOffset = EmptyMap
    /\ offset = 0
    /\ regNode = [r \in RegisterSet |-> NoNode]
    /\ exprReg = EmptyMap
    /\ exprOffset = EmptyMap
    /\ out = <<>>
    /\ abort = "none"
    /\ counter = 0
    /\ pc = "function"
    /\ todo = 0
    /\ ParserIdle

\* Function::generate up to the body
DivideFunction ==
    /\ pc = "function"
    /\ \E f \in DivideFunctions : SetState(Prologue(f))
    /\ pc' = "sibling"
    /\ UNCHANGED todo
    /\ UNCHANGED parserVars

\* Add::generate of the addition, line 470: its left operand
GenerateSibling ==
    /\ pc = "sibling"
    /\ SetState(IF DividePath = ExprPath THEN State ELSE Generate(State, ExprPath \o <<1>>))
    /\ pc' = "operands"
    /\ UNCHANGED todo
    /\ UNCHANGED parserVars

\* Divide::generate, lines 509-510
GenerateOperands ==
    /\ pc = "operands"
    /\ SetState(Generate(Generate(State, DivideLeft), DivideRight))
    /\ pc' = "placing"
    /\ UNCHANGED todo
    /\ UNCHANGED parserVars

\* Divide::generate, lines 512-522
PlaceForIdiv ==
    /\ pc = "placing"
    /\ SetState(PlaceOperands(State, DividePath))
    /\ pc' = "idiv"
    /\ UNCHANGED todo
    /\ UNCHANGED parserVars

\* Divide::generate, lines 524-539
EmitIdiv ==
    /\ pc = "idiv"
    /\ SetState(Divided(State, DividePath, IF Node(State, DividePath).kind = "Divide" THEN "rax" ELSE "rdx"))
    /\ pc' = "divided"
    /\ UNCHANGED todo
    /\ UNCHANGED parserVars

\* The rest of Add::generate, and of Simple::generate
FinishStatement ==
    /\ pc = "divided"
    /\ SetState(assign(IF DividePath = ExprPath THEN State ELSE ArithCombine(State, ExprPath, "add"), ExprPath, NoReg))
    /\ pc' = "generated"
    /\ UNCHANGED todo
    /\ UNCHANGED parserVars

NextDivide ==
    \/ DivideFunction
    \/ GenerateSibling
    \/ GenerateOperands
    \/ PlaceForIdiv
    \/ EmitIdiv
    \/ FinishStatement

SpecDivide == InitDivide /\ [][NextDivide]_vars

\* C20: where idiv is emitted, the left operand is bound to rax, rdx holds
\* no node, and the right operand is in a register other than rax and rdx.
OperandsPlacedAtIdiv ==
    pc = "idiv" /\ abort = "none" =>
        /\ regNode["rax"] = DivideLeft
        /\ regNode["rdx"] = NoNode
        /\ RegOf(State, DivideRight) \notin {NoReg, "rax", "rdx"}

\* The stepwise generation leaves what Simple::generate leaves.
StepsAreGenerate ==
    pc = "generated" => State = SimpleGenerate(Prologue(func), <<1>>)

----------------------------------------------------------------------------
(* checkTest.                                                              *)

\* The last call is checkTest and reports `scalar type required in
\* statement` if and only if the converted type is neither error nor scalar.
TestReportsNonScalar ==
    (call.reported # <<>>) <=> (~TypeEq(call.result.type, error) /\ ~isScalar(call.result.type))

\* C24 as stated: checkTest returns the very node it was given, and reports
\* if and only if the converted type is neither error nor scalar.
TestReturnsOperand ==
    call.name = "checkTest" => call.result = call.args[1] /\ TestReportsNonScalar

\* C24: checkTest returns the expression converted: a Cast to int of the
\* node it was given when that has type char, its Address when it is an
\* array, else the node itself; and it reports if and only if the converted
\* type is neither error nor scalar.
TestReturnsConverted ==
    call.name = "checkTest" =>
        /\ call.result =
             IF TypeEq(call.args[1].type, character) THEN Tree("Cast", integer, <<call.args[1]>>, 0, "")
             ELSE IF call.args[1].type.kind = "ARRAY"
             THEN Tree("Address", ScalarType(call.args[1].type.spec, call.args[1].type.ind + 1), <<call.args[1]>>, 0, "")
             ELSE call.args[1]
        /\ TestReportsNonScalar
        /\ call.reported \in {<<>>, <<"scalar type required in statement">>}

\* checkTest has been given an expression of type char.
CharTested == call.name = "checkTest" /\ TypeEq(call.args[1].type, character) /\ call.result.kind = "Cast"

----------------------------------------------------------------------------
(* checkMultiply, checkDivide, checkRemainder.                             *)

MultiplicativeChecks == {"check" \o kind : kind \in Multiplicative}

\* Both operands of the last call have a type of char, int, long.
BothNumeric == \A i \in {1, 2} : isNumeric(call.args[i].type)

EitherLong == \E i \in {1, 2} : TypeEq(call.args[i].type, longint)

EitherPointer == \E i \in {1, 2} : isPointer(call.args[i].type)

\* On numeric operands the operands of the node have one type, and the node
\* has type long if either operand was long, int otherwise.
WiderOfNumeric ==
    BothNumeric =>
        /\ TypeEq(call.result.kids[1].type, call.result.kids[2].type)
        /\ TypeEq(call.result.type, IF EitherLong THEN longint ELSE integer)
        /\ call.reported = <<>>

\* C25 as stated: on numeric operands both have the same type after the
\* mutual extend and the result is long if either was long, int otherwise;
\* if either operand is a pointer the check reports and the result is
\* error.
MultiplicativeReportsPointer ==
    call.name \in MultiplicativeChecks =>
        /\ WiderOfNumeric
        /\ EitherPointer => call.reported # <<>> /\ TypeEq(call.result.type, error)

\* C25: the same, but a pointer operand is reported only if the other
\* operand does not have type error; the result is error either way.
MultiplicativeReportsPointerOnce ==
    call.name \in MultiplicativeChecks =>
        /\ WiderOfNumeric
        /\ EitherPointer => TypeEq(call.result.type, error)
        /\ EitherPointer => (call.reported # <<>> <=> ~ErrorOperand)

\* A char has been multiplied with, or divided by, a long, or a long by a
\* char.
CharWithLong ==
    /\ call.name \in MultiplicativeChecks
    /\ EitherLong
    /\ \E i \in {1, 2} : TypeEq(call.args[i].type, character)
    /\ TypeEq(call.result.type, longint)

----------------------------------------------------------------------------
(* checkSizeof.                                                            *)

\* The last call is checkSizeof of an operand that is neither a function
\* nor of type error.
SizeofOfObject ==
    call.name = "checkSizeof" /\ ~IsFunction(call.args[1].type) /\ ~TypeEq(call.args[1].type, error)

\* C26: checkSizeof of an operand that is neither a function nor of type
\* error returns a Number whose value is the size of the operand's type,
\* element size times length as a 64-bit value, arrays of 2^32 bytes or
\* more included.
SizeofIsTypeSize ==
    SizeofOfObject => call.result.kind = "Number" /\ Wide(call.result.val) = TypeSizeWide(call.args[1].type)

\* The same of the types whose size is below 2^32.
SizeofIsTypeSizeBelow4G ==
    SizeofOfObject /\ TypeSizeWide(call.args[1].type) = ToUnsigned(TypeSizeWide(call.args[1].type))
        => call.result.kind = "Number" /\ Wide(call.result.val) = TypeSizeWide(call.args[1].type)

----------------------------------------------------------------------------
(* checkCall returns.                                                      *)

\* C28: checkCall terminates for every callee and every argument list: the
\* loop over the arguments after the parameters ends, whatever the type of
\* an argument.
CheckCallReturns == call.name = "checkCall" => pc # "hung" /\ call.result # NoReturn

\* The same of the calls that have no argument of type error after the
\* parameters.
CheckCallReturnsWithoutErrorExtra ==
    /\ call.name = "checkCall"
    /\ \A i \in 2..Len(call.args) :
           TypeEq(call.args[i].type, error) => IsFunction(call.args[1].type) /\ i - 1 <= Len(call.args[1].type.params)
    => pc # "hung" /\ call.result # NoReturn

----------------------------------------------------------------------------
(* Alignment of the symbols.                                               *)

\* Type::alignment
TypeAlignment(t) ==
    IF t.ind > 0 THEN ALIGNOF_PTR
    ELSE IF t.spec = "CHAR" THEN ALIGNOF_CHAR
    ELSE IF t.spec = "INT" THEN ALIGNOF_INT
    ELSE IF t.spec = "LONG" THEN ALIGNOF_LONG
    ELSE 0

\* A parameter passed in a register, or a local.
InFrame(f, s) == s[1] # <<>> \/ s[2] <= NUM_PARAM_REGS \/ s[2] > Len(f.types)

\* C27: after Function::allocate the offset of every parameter passed in a
\* register and of every local is a multiple of the alignment of its type.
OffsetsAligned ==
    pc = "allocated" =>
        \A s \in Symbols(func) :
            InFrame(func, s) => CRem(SymOff(symOffset, s), TypeAlignment(SymType(func, s))) = 0

----------------------------------------------------------------------------
(* The byte register of a comparison.                                      *)

SetOpcodes == {"setl", "setg", "setle", "setge", "sete", "setne"}

\* C21: the byte register that set<cc> writes is the low byte of the
\* register bound to the comparison, and the comparison is still bound to
\* it when movzb is emitted, whose destination is then that register.
ByteRegisterIsResultRegister ==
    \A i \in 1..(Len(out) - 1) :
        out[i].op \in SetOpcodes /\ out[i + 1].op = "movzb" => out[i + 1].b = RegOpnd(out[i].a.r)

\* C22: every store through a pointer, the mov whose destination is a
\* register in parentheses, has as its source the register bound to the right
\* side, a register other than the pointer's.
StoreHasSourceRegister ==
    \A i \in 1..Len(out) :
        out[i].b.k = "ind" => out[i].a.k = "reg" /\ out[i].a.r # out[i].b.r

\* C23: the assertion offset != 0 of Expression::operand never fails: no
\* expression without a register that is neither an Identifier, a Number nor
\* a String is written as an operand while its offset is 0.
OperandAssertionHolds == abort # "operand"

\* The left operand of the addition, generated before the division.
Sibling == ExprPath \o <<1>>

\* C29: no computed value is lost: from the moment the sum on the left of
\* the addition is generated until the addition consumes it, it is bound to
\* a register or has a spill slot, and so has the result of the division
\* once it is bound.
NoValueLost ==
    IF pc \notin {"operands", "placing", "idiv", "divided"} \/ abort # "none" THEN TRUE
    ELSE DividePath # ExprPath /\ Node(State, Sibling).kind = "Add" =>
            /\ RegOf(State, Sibling) # NoReg \/ ExprOff(State, Sibling) # 0
            /\ pc = "divided" => RegOf(State, DividePath) # NoReg \/ ExprOff(State, DividePath) # 0

\* The bytes [a, a + s) lie at or below b.
Below(a, s, b) == IF a < 0 THEN a + s <= b ELSE b >= a /\ s <= b - a

\* The bytes [a, a + s) and [b, b + t) have none in common.
Disjoint(a, s, b, t) == Below(a, s, b) \/ Below(b, t, a)

\* The expressions load has spilled so far, and the parameters and locals
\* that take room in the frame.
Spilled == DOMAIN exprOffset
Sized == {s \in Symbols(func) : TypeSize(SymType(func, s)) > 0}

\* The slot of every spilled expression is apart from every parameter, every
\* local and every other slot and below every parameter passed in a register
\* and every local, the running offset is not above it, and the frame size
\* written at the end reaches it.
SlotsApart ==
    \A n \in Spilled :
        /\ \A s \in Sized :
            /\ Disjoint(exprOffset[n], Node(State, n).size, SymOff(symOffset, s), TypeSize(SymType(func, s)))
            /\ exprOffset[n] < SymOff(symOffset, s)
        /\ \A m \in Spilled \ {n} : Disjoint(exprOffset[n], Node(State, n).size, exprOffset[m], Node(State, m).size)
        /\ offset <= exprOffset[n]
        /\ pc = "done" => -FrameSize(out) <= exprOffset[n]

\* C30: within one function every spill slot is disjoint from the
\* parameters, the locals of every block and the earlier spill slots, the
\* running offset is never above a slot already given out, and the emitted
\* frame size is at least the depth of the lowest slot.
SpillSlotsFresh == pc \in {"body", "aborted", "done"} => SlotsApart

\* The same of the functions whose parameters and locals fit an int.
SpillSlotsFreshInFittingFrames == (pc \in {"body", "aborted", "done"} /\ FrameFits(func)) => SlotsApart

\* The running offset never increases from Function::allocate to the .set
\* of a frame that fits an int.
OffsetNeverIncreases == [][(pc = "body" /\ FrameFits(func)) => offset' <= offset]_vars

\* A function is generated to its end with two expressions spilled.
TwoSpilledAtExit == pc = "done" /\ Cardinality(Spilled) >= 2

====
